---- MODULE Spec2Model ----
(***************************************************************************)
(* A model of the concurrency examples of the repository:                  *)
(*   - SafeCounter, SafeQueue and ReadHeavyStruct                          *)
(*     (pkg/concurrency/concurrency-mutexes.go, pkg/func/functions.go),    *)
(*   - generatorWithBoring and fanIn (the concurrency-patterns file),      *)
(*   - testWaitGroup (the goroutines file),                                *)
(*   - TestMutex, deadlockExample and properLockingExample                 *)
(*     (concurrency-mutexes.go),                                           *)
(*   - the sequential functions merge (README.md) and split                *)
(*     (pkg/func/functions.go).                                            *)
(* Every goroutine is a process with a program counter; one action is one  *)
(* atomic step of the Go code (a lock operation, a load, a store, a        *)
(* channel rendezvous).  Each example has a specification of its own; the  *)
(* variables of the other examples stay as initialised.                    *)
(***************************************************************************)
EXTENDS Integers, Sequences, FiniteSets, TLC

VARIABLES
    \* --- SafeCounter example (TestMutex / TestSafeCounter)
    cMu,        \* SafeCounter.mu: TRUE when locked
    cValue,     \* SafeCounter.value
    cPc,        \* program counter of each incrementing goroutine
    cJ,         \* loop variable j of each incrementing goroutine
    cTmp,       \* the value loaded by c.value++ before it is stored back
    cWg,        \* the sync.WaitGroup counter
    cMainPc,    \* program counter of the test function
    cMainI,     \* loop variable i of the launching loop
    cResult,    \* what safeCounter.Value() returned
    \* --- a goroutine calling SafeCounter.Value() while the others increment
    oPc,        \* program counter of the observing goroutine
    oRet,       \* what its current Value() call is about to return
    oLow,       \* history: the Increment calls completed when that call began
    \* --- SafeQueue example (TestSafeQueue)
    qMu,        \* SafeQueue.mu: TRUE when locked
    queue,      \* SafeQueue.queue
    qItems,     \* the items slice handed to each producer
    qpPc,       \* program counter of each producer
    qpIdx,      \* range index of each producer
    qpTmp,      \* the slice read by append(sq.queue, item) before it is assigned
    qcPc,       \* program counter of each consumer
    qcRet,      \* (item, ok) computed by the consumer's current Dequeue
    qWg,        \* the sync.WaitGroup counter
    qMainPc,    \* program counter of TestSafeQueue
    enqLog,     \* history: the items appended, in order
    deqLog,     \* history: what each Dequeue returned, in order
    qSeen,      \* history: the queue as the consumer's current Dequeue found it
    \* --- ReadHeavyStruct example (TestRWMutex)
    rwReaders,  \* sync.RWMutex: goroutines holding the read lock
    rwWaiting,  \* sync.RWMutex: readers suspended in RLock
    rwWriter,   \* sync.RWMutex: goroutines holding the write lock
    rwPending,  \* sync.RWMutex: writers that announced Lock and wait for readers
    data,       \* ReadHeavyStruct.data
    rPc,        \* program counter of each reader goroutine
    rJ,         \* loop variable j of each reader
    rRet,       \* (val, exists) of the reader's current Read
    wPc,        \* program counter of each writer goroutine
    wI,         \* loop variable i of each writer
    wLast,      \* history: <<v>> for the value v of the last Write call that returned
    rAtCall,    \* history: wLast when the current Read was entered, if no Write
                \* call was in progress then (<<>> otherwise)
    rAtLock,    \* history: wLast when the current Read got its read lock
    dataNil,    \* whether ReadHeavyStruct.data is the nil map
    rwPanic,    \* the goroutines that panicked and run their deferred calls
    \* --- fanIn example
    inClosed,   \* whether each input channel is closed
    outClosed,  \* whether the merged channel is closed
    gPc,        \* program counter of each producing goroutine
    gI,         \* loop variable i of each producing goroutine
    gLimit,     \* number of messages each producer sends (-1: no limit)
    fPc,        \* program counter of each forwarding goroutine
    fVal,       \* the value a forwarder received and has not sent yet
    fOk,        \* whether that value came from a sender (FALSE: from a closed channel)
    mPc,        \* program counter of the consumer
    mN,         \* loop variable i of the consumer
    mLimit,     \* number of messages the consumer receives (-1: no limit)
    received,   \* history: the messages received from the merged channel
    holding,    \* history: the forwarders holding a value, in the order they got it
    \* --- testGeneratorWithBoring
    bMsg,       \* the msg argument of generatorWithBoring
    bPc,        \* program counter of the generator's goroutine
    bI,         \* loop variable i of the generator's goroutine
    bVal,       \* the message the goroutine has formatted and is sending
    bMade,      \* history: number of messages the goroutine has formatted
    tPc,        \* program counter of testGeneratorWithBoring
    tI,         \* loop variable i of testGeneratorWithBoring
    tGot,       \* history: the values received from c, in order
    \* --- testWaitGroup
    wgN,        \* the sync.WaitGroup counter
    wgPc,       \* program counter of each worker goroutine
    wgMainPc,   \* program counter of testWaitGroup
    wgMainI,    \* loop variable i of testWaitGroup
    \* --- TestMutex (the package-level counters and their workers)
    counter,          \* var counter int
    counterWithMutex, \* var counterWithMutex int
    mu,               \* var mu sync.Mutex: TRUE when locked
    tmWg,       \* the sync.WaitGroup counter of TestMutex
    tmPc,       \* program counter of TestMutex
    tmI,        \* loop variable i of the launching loops
    tmCalls,    \* number of times TestMutex has been called
    uPc,        \* program counter of each workerWithoutMutex goroutine
    uI,         \* loop variable i of each workerWithoutMutex goroutine
    uTmp,       \* the value loaded by counter++ before it is stored back
    pPc,        \* program counter of each workerWithMutex goroutine
    pI,         \* loop variable i of each workerWithMutex goroutine
    pTmp,       \* the value loaded by counterWithMutex++ before it is stored back
    \* --- deadlockExample and properLockingExample
    dMu,        \* the local sync.Mutex: TRUE when locked
    dWg,        \* the local sync.WaitGroup counter
    dPc,        \* program counter of the function
    dgPc,       \* program counter of each goroutine it starts
    dFn,        \* which of the two functions runs
    \* --- merge
    nums1,      \* the slice nums1 (element 0 of the slice is nums1[1] here)
    nums2,      \* the slice nums2
    mergeM,     \* the argument m
    mergeN,     \* the argument n
    mergeI,     \* the local i
    mergeJ,     \* the local j
    mergeK,     \* the local k
    mergePc,    \* program counter of merge
    nums1In,    \* history: nums1 as it was passed
    \* --- split
    splitSum,   \* the argument sum
    splitX,     \* the named result x
    splitY,     \* the named result y
    splitPc     \* program counter of split

counterVars == <<cMu, cValue, cPc, cJ, cTmp, cWg, cMainPc, cMainI, cResult>>
queueVars   == <<qMu, queue, qItems, qpPc, qpIdx, qpTmp, qcPc, qcRet, qWg, qMainPc,
                 enqLog, deqLog, qSeen>>
rwVars      == <<rwReaders, rwWaiting, rwWriter, rwPending, data, rPc, rJ, rRet,
                 wPc, wI, wLast, rAtCall, rAtLock, dataNil, rwPanic>>
obsVars     == <<oPc, oRet, oLow>>
fanVars     == <<inClosed, outClosed, gPc, gI, gLimit, fPc, fVal, fOk, mPc, mN,
                 mLimit, received, holding>>
genVars     == <<bMsg, bPc, bI, bVal, bMade, tPc, tI, tGot>>
wgVars      == <<wgN, wgPc, wgMainPc, wgMainI>>
tmVars      == <<counter, counterWithMutex, mu, tmWg, tmPc, tmI, tmCalls,
                 uPc, uI, uTmp, pPc, pI, pTmp>>
dlVars      == <<dFn, dMu, dWg, dPc, dgPc>>
mergeVars   == <<nums1, nums2, mergeM, mergeN, mergeI, mergeJ, mergeK, mergePc,
                 nums1In>>
splitVars   == <<splitSum, splitX, splitY, splitPc>>
\* the variables of the examples in the second half of the module
laterVars   == <<tmVars, dlVars, mergeVars, splitVars>>
vars        == <<counterVars, obsVars, queueVars, rwVars, fanVars, genVars, wgVars,
                 laterVars>>

\* what the steps of one example leave alone
notCounter  == <<obsVars, queueVars, rwVars, fanVars, genVars, wgVars,
                 laterVars>>
notObserver == <<queueVars, rwVars, fanVars, genVars, wgVars,
                 laterVars>>
notQueue    == <<counterVars, obsVars, rwVars, fanVars, genVars, wgVars,
                 laterVars>>
notRW       == <<counterVars, obsVars, queueVars, fanVars, genVars, wgVars,
                 laterVars>>
notFan      == <<counterVars, obsVars, queueVars, rwVars, genVars, wgVars,
                 laterVars>>
notGen      == <<counterVars, obsVars, queueVars, rwVars, fanVars, wgVars,
                 laterVars>>
notWg       == <<counterVars, obsVars, queueVars, rwVars, fanVars, genVars,
                 laterVars>>
\* the examples of the first half of the module
earlyVars   == <<counterVars, obsVars, queueVars, rwVars, fanVars, genVars, wgVars>>
notTm       == <<earlyVars, dlVars, mergeVars, splitVars>>
notDl       == <<earlyVars, tmVars, mergeVars, splitVars>>
notMerge    == <<earlyVars, tmVars, dlVars, splitVars>>
notSplit    == <<earlyVars, tmVars, dlVars, mergeVars>>

-----------------------------------------------------------------------------
(* Bounds of the model.                                                    *)

\* goroutines incrementing the SafeCounter (N; 5 in the tests)
NumWorkers == 2
\* Increment calls of each goroutine (M; 1000 in the tests)
NumIncr == 2

\* Write calls of each writer and Read calls of each reader (5 in TestRWMutex)
NumCalls == 2

\* messages each input channel of fanIn delivers (K)
NumMsgs == 2

\* items each producer enqueues when several producers share a SafeQueue
NumItems == 2

Workers == 1..NumWorkers
\* the goroutines writing to the ReadHeavyStruct and those reading from it
Writers == {1, 2}
Readers == {1, 2}

-----------------------------------------------------------------------------
(* sync.Mutex and sync.WaitGroup as the examples use them.                 *)

\* Faulty variant: a mutex whose Lock() never waits
MutexCanLock_Always(locked) == TRUE

\* Lock() returns only when the mutex is unlocked, and locks it.
MutexCanLock(locked) == ~locked

\* Faulty variant: an Unlock() that leaves the mutex as it was
MutexUnlock_Forgotten(locked) == locked

\* Unlock() leaves the mutex unlocked.
MutexUnlock(locked) == FALSE

\* Faulty variant: a Wait() that returns whatever the counter is
WaitGroupCanPass_Always(n) == TRUE

\* Wait() returns only when the counter is zero.
WaitGroupCanPass(n) == n = 0

-----------------------------------------------------------------------------
(* SafeCounter.                                                            *)

InitCounterVars ==
    /\ cMu = FALSE
    /\ cValue = 0
    /\ cPc = [w \in Workers |-> "unborn"]
    /\ cJ = [w \in Workers |-> 0]
    /\ cTmp = [w \in Workers |-> 0]
    /\ cWg = 0
    /\ cMainPc = "spawn"
    /\ cMainI = 0
    /\ cResult = 0

\* for i := 0; i < 5; i++ { wg.Add(1); go func() {...}() }
TestSafeCounter_Spawn ==
    /\ cMainPc = "spawn"
    /\ IF cMainI < NumWorkers
         THEN /\ cWg' = cWg + 1
              /\ cPc' = [cPc EXCEPT ![cMainI + 1] = "for"]
              /\ cMainI' = cMainI + 1
              /\ UNCHANGED cMainPc
         ELSE /\ cMainPc' = "wait"
              /\ UNCHANGED <<cWg, cPc, cMainI>>
    /\ UNCHANGED <<cMu, cValue, cJ, cTmp, cResult>>
    /\ UNCHANGED notCounter

\* for j := 0; j < 1000; j++ { counter.Increment() }; deferred wg.Done()
Worker_For(w) ==
    /\ cPc[w] = "for"
    /\ IF cJ[w] < NumIncr
         THEN /\ cPc' = [cPc EXCEPT ![w] = "lock"]
              /\ UNCHANGED cWg
         ELSE /\ cPc' = [cPc EXCEPT ![w] = "done"]
              /\ cWg' = cWg - 1
    /\ UNCHANGED <<cMu, cValue, cJ, cTmp, cMainPc, cMainI, cResult>>
    /\ UNCHANGED notCounter

\* Faulty variant: Increment without mutual exclusion: Lock never waits
Increment_LockIgnored == TRUE

\* the guard of c.mu.Lock() in Increment
Increment_CanLock == MutexCanLock(cMu)

\* Faulty variant: Increment that calls c.mu.Lock() again while holding the lock
Increment_LockAgain == "lock"

\* where Increment goes once it holds the lock: straight to c.value++
Increment_AfterLock == "load"

\* Increment: c.mu.Lock()
SafeCounter_Increment_Lock(w) ==
    /\ cPc[w] = "lock"
    /\ Increment_CanLock
    /\ cMu' = TRUE
    /\ cPc' = [cPc EXCEPT ![w] = Increment_AfterLock]
    /\ UNCHANGED <<cValue, cJ, cTmp, cWg, cMainPc, cMainI, cResult>>
    /\ UNCHANGED notCounter

\* Increment: c.value++ reads the field ...
SafeCounter_Increment_Load(w) ==
    /\ cPc[w] = "load"
    /\ cTmp' = [cTmp EXCEPT ![w] = cValue]
    /\ cPc' = [cPc EXCEPT ![w] = "store"]
    /\ UNCHANGED <<cMu, cValue, cJ, cWg, cMainPc, cMainI, cResult>>
    /\ UNCHANGED notCounter

\* Faulty variant: an increment by two
Incremented_Twice(v) == v + 2

\* the value c.value++ writes back, v being the value it read
Incremented(v) == v + 1

\* ... and writes it back plus one
SafeCounter_Increment_Store(w) ==
    /\ cPc[w] = "store"
    /\ cValue' = Incremented(cTmp[w])
    /\ cPc' = [cPc EXCEPT ![w] = "unlock"]
    /\ UNCHANGED <<cMu, cJ, cTmp, cWg, cMainPc, cMainI, cResult>>
    /\ UNCHANGED notCounter

\* Increment: the deferred c.mu.Unlock(); the call returns and j++
SafeCounter_Increment_Unlock(w) ==
    /\ cPc[w] = "unlock"
    /\ cMu' = MutexUnlock(cMu)
    /\ cJ' = [cJ EXCEPT ![w] = cJ[w] + 1]
    /\ cPc' = [cPc EXCEPT ![w] = "for"]
    /\ UNCHANGED <<cValue, cTmp, cWg, cMainPc, cMainI, cResult>>
    /\ UNCHANGED notCounter

\* wg.Wait()
TestSafeCounter_Wait ==
    /\ cMainPc = "wait"
    /\ WaitGroupCanPass(cWg)
    /\ cMainPc' = "v_lock"
    /\ UNCHANGED <<cMu, cValue, cPc, cJ, cTmp, cWg, cMainI, cResult>>
    /\ UNCHANGED notCounter

\* Value: c.mu.Lock()
SafeCounter_Value_Lock ==
    /\ cMainPc = "v_lock"
    /\ MutexCanLock(cMu)
    /\ cMu' = TRUE
    /\ cMainPc' = "v_read"
    /\ UNCHANGED <<cValue, cPc, cJ, cTmp, cWg, cMainI, cResult>>
    /\ UNCHANGED notCounter

\* Value: return c.value (evaluated before the deferred unlock runs)
SafeCounter_Value_Read ==
    /\ cMainPc = "v_read"
    /\ cResult' = cValue
    /\ cMainPc' = "v_unlock"
    /\ UNCHANGED <<cMu, cValue, cPc, cJ, cTmp, cWg, cMainI>>
    /\ UNCHANGED notCounter

\* Value: the deferred c.mu.Unlock(); the result is printed
SafeCounter_Value_Unlock ==
    /\ cMainPc = "v_unlock"
    /\ cMu' = MutexUnlock(cMu)
    /\ cMainPc' = "done"
    /\ UNCHANGED <<cValue, cPc, cJ, cTmp, cWg, cMainI, cResult>>
    /\ UNCHANGED notCounter

\* history: the Increment calls that have returned, of the first n goroutines
RECURSIVE IncCompletedBy(_)
IncCompletedBy(n) == IF n = 0 THEN 0 ELSE cJ[n] + IncCompletedBy(n - 1)

\* history: the Increment calls that have returned
IncCompleted == IncCompletedBy(NumWorkers)

\* history: the Increment calls that have been entered
IncStarted ==
    IncCompleted
      + Cardinality({w \in Workers : cPc[w] \in {"lock", "load", "store", "unlock"}})

\* A goroutine that calls Value() once, at any moment, while the others
\* increment.
InitObsVars ==
    /\ oPc = "call"
    /\ oRet = 0
    /\ oLow = 0

\* the goroutine enters Value()
Observer_Call ==
    /\ oPc = "call"
    /\ oPc' = "v_lock"
    /\ oLow' = IncCompleted
    /\ UNCHANGED oRet
    /\ UNCHANGED counterVars
    /\ UNCHANGED notObserver

\* Value: c.mu.Lock()
Observer_Value_Lock ==
    /\ oPc = "v_lock"
    /\ MutexCanLock(cMu)
    /\ cMu' = TRUE
    /\ oPc' = "v_read"
    /\ UNCHANGED <<oRet, oLow>>
    /\ UNCHANGED <<cValue, cPc, cJ, cTmp, cWg, cMainPc, cMainI, cResult>>
    /\ UNCHANGED notObserver

\* Value: return c.value (evaluated before the deferred unlock runs)
Observer_Value_Read ==
    /\ oPc = "v_read"
    /\ oRet' = cValue
    /\ oPc' = "v_unlock"
    /\ UNCHANGED oLow
    /\ UNCHANGED counterVars
    /\ UNCHANGED notObserver

\* Value: the deferred c.mu.Unlock(); the call returns oRet and the goroutine
\* ends
Observer_Value_Unlock ==
    /\ oPc = "v_unlock"
    /\ cMu' = MutexUnlock(cMu)
    /\ oPc' = "done"
    /\ UNCHANGED <<oRet, oLow>>
    /\ UNCHANGED <<cValue, cPc, cJ, cTmp, cWg, cMainPc, cMainI, cResult>>
    /\ UNCHANGED notObserver

-----------------------------------------------------------------------------
(* SafeQueue.                                                              *)

\* []int{1, 2, 3, 4, 5}, the items TestSafeQueue hands to its producer
TestItems == <<1, 2, 3, 4, 5>>

Producers == DOMAIN qItems
Consumers == DOMAIN qcPc

\* What fmt.Printf("Consumed: ...") has reported: the items of the Dequeue
\* calls that returned ok.
Consumed == SelectSeq(deqLog, LAMBDA r : r.ok)

\* sq := SafeQueue{}; var wg sync.WaitGroup, with a producer to launch for each
\* element of items (the slice it is handed) and nc consumers to launch
InitQueueFor(items, nc) ==
    /\ qMu = FALSE
    /\ queue = <<>>
    /\ qItems = items
    /\ qpPc = [p \in DOMAIN items |-> "unborn"]
    /\ qpIdx = [p \in DOMAIN items |-> 0]
    /\ qpTmp = [p \in DOMAIN items |-> <<>>]
    /\ qcPc = [c \in 1..nc |-> "unborn"]
    /\ qcRet = [c \in 1..nc |-> [item |-> 0, ok |-> FALSE]]
    /\ qWg = 0
    /\ qMainPc = "go_producer"
    /\ enqLog = <<>>
    /\ deqLog = <<>>
    /\ qSeen = [c \in 1..nc |-> <<>>]

\* the same with np producers that are each handed TestItems
InitQueueVars(np, nc) == InitQueueFor([p \in 1..np |-> TestItems], nc)

\* the slice handed to producer p when several producers run: ten times p,
\* plus 1, 2, ...
ClientItems(p) == [i \in 1..NumItems |-> 10 * p + i]

\* two producers and two consumers on one SafeQueue
InitQueueClients == InitQueueFor([p \in {1, 2} |-> ClientItems(p)], 2)

\* wg.Add(1); go producer(&sq, &wg, items)
TestSafeQueue_GoProducer ==
    /\ qMainPc = "go_producer"
    /\ IF \E p \in Producers : qpPc[p] = "unborn"
         THEN LET p == CHOOSE x \in Producers : qpPc[x] = "unborn" IN
              /\ qWg' = qWg + 1
              /\ qpPc' = [qpPc EXCEPT ![p] = "range"]
              /\ UNCHANGED qMainPc
         ELSE /\ qMainPc' = "go_consumer"
              /\ UNCHANGED <<qWg, qpPc>>
    /\ UNCHANGED <<qMu, queue, qItems, qpIdx, qcPc, qcRet, enqLog, deqLog, qSeen>>
    /\ UNCHANGED qpTmp
    /\ UNCHANGED notQueue

\* wg.Add(1); go consumer(&sq, &wg)
TestSafeQueue_GoConsumer ==
    /\ qMainPc = "go_consumer"
    /\ IF \E c \in Consumers : qcPc[c] = "unborn"
         THEN LET c == CHOOSE x \in Consumers : qcPc[x] = "unborn" IN
              /\ qWg' = qWg + 1
              /\ qcPc' = [qcPc EXCEPT ![c] = "d_lock"]
              /\ UNCHANGED qMainPc
         ELSE /\ qMainPc' = "wait"
              /\ UNCHANGED <<qWg, qcPc>>
    /\ UNCHANGED <<qMu, queue, qItems, qpPc, qpIdx, qcRet, enqLog, deqLog, qSeen>>
    /\ UNCHANGED qpTmp
    /\ UNCHANGED notQueue

\* wg.Wait(); fmt.Println("Producer and Consumer completed.")
TestSafeQueue_Wait ==
    /\ qMainPc = "wait"
    /\ WaitGroupCanPass(qWg)
    /\ qMainPc' = "done"
    /\ UNCHANGED <<qMu, queue, qItems, qpPc, qpIdx, qcPc, qcRet, qWg, enqLog,
                   deqLog, qSeen>>
    /\ UNCHANGED qpTmp
    /\ UNCHANGED notQueue

\* producer: for _, item := range items { sq.Enqueue(item) }; deferred wg.Done()
producer_Range(p) ==
    /\ qpPc[p] = "range"
    /\ IF qpIdx[p] < Len(qItems[p])
         THEN /\ qpPc' = [qpPc EXCEPT ![p] = "e_lock"]
              /\ UNCHANGED qWg
         ELSE /\ qpPc' = [qpPc EXCEPT ![p] = "done"]
              /\ qWg' = qWg - 1
    /\ UNCHANGED <<qMu, queue, qItems, qpIdx, qcPc, qcRet, qMainPc, enqLog,
                   deqLog, qSeen>>
    /\ UNCHANGED qpTmp
    /\ UNCHANGED notQueue

\* Enqueue: sq.mu.Lock()
SafeQueue_Enqueue_Lock(p) ==
    /\ qpPc[p] = "e_lock"
    /\ MutexCanLock(qMu)
    /\ qMu' = TRUE
    /\ qpPc' = [qpPc EXCEPT ![p] = "e_load"]
    /\ UNCHANGED <<queue, qItems, qpIdx, qcPc, qcRet, qWg, qMainPc, enqLog,
                   deqLog, qSeen>>
    /\ UNCHANGED qpTmp
    /\ UNCHANGED notQueue

\* append(sq.queue, item)
SafeQueue_Append(q, item) == Append(q, item)

\* Enqueue: sq.queue = append(sq.queue, item) reads the field ...
SafeQueue_Enqueue_Load(p) ==
    /\ qpPc[p] = "e_load"
    /\ qpTmp' = [qpTmp EXCEPT ![p] = queue]
    /\ qpPc' = [qpPc EXCEPT ![p] = "e_append"]
    /\ UNCHANGED <<qMu, queue, qItems, qpIdx, qcPc, qcRet, qWg, qMainPc, enqLog,
                   deqLog, qSeen>>
    /\ UNCHANGED notQueue

\* ... and assigns it the slice read, with the item appended
SafeQueue_Enqueue_Append(p) ==
    /\ qpPc[p] = "e_append"
    /\ queue' = SafeQueue_Append(qpTmp[p], qItems[p][qpIdx[p] + 1])
    /\ qpTmp' = [qpTmp EXCEPT ![p] = <<>>]
    /\ enqLog' = Append(enqLog, qItems[p][qpIdx[p] + 1])
    /\ qpPc' = [qpPc EXCEPT ![p] = "e_unlock"]
    /\ UNCHANGED <<qMu, qItems, qpIdx, qcPc, qcRet, qWg, qMainPc, deqLog, qSeen>>
    /\ UNCHANGED notQueue

\* Enqueue: the deferred sq.mu.Unlock(); the range loop advances
SafeQueue_Enqueue_Unlock(p) ==
    /\ qpPc[p] = "e_unlock"
    /\ qMu' = MutexUnlock(qMu)
    /\ qpIdx' = [qpIdx EXCEPT ![p] = qpIdx[p] + 1]
    /\ qpPc' = [qpPc EXCEPT ![p] = "range"]
    /\ UNCHANGED <<queue, qItems, qcPc, qcRet, qWg, qMainPc, enqLog, deqLog, qSeen>>
    /\ UNCHANGED qpTmp
    /\ UNCHANGED notQueue

\* Dequeue: sq.mu.Lock()
SafeQueue_Dequeue_Lock(c) ==
    /\ qcPc[c] = "d_lock"
    /\ MutexCanLock(qMu)
    /\ qMu' = TRUE
    /\ qSeen' = [qSeen EXCEPT ![c] = queue]
    /\ qcPc' = [qcPc EXCEPT ![c] = "d_body"]
    /\ UNCHANGED <<queue, qItems, qpPc, qpIdx, qcRet, qWg, qMainPc, enqLog, deqLog>>
    /\ UNCHANGED qpTmp
    /\ UNCHANGED notQueue

\* Faulty variant: Dequeue that takes the item at the tail
SafeQueue_Dequeue_Tail(q) ==
    IF Len(q) = 0
      THEN [item |-> 0, ok |-> FALSE, rest |-> q]
      ELSE [item |-> q[Len(q)], ok |-> TRUE, rest |-> SubSeq(q, 1, Len(q) - 1)]

\* Faulty variant: Dequeue that reports ok on an empty queue
SafeQueue_Dequeue_EmptyOk(q) ==
    IF Len(q) = 0
      THEN [item |-> 0, ok |-> TRUE, rest |-> q]
      ELSE [item |-> q[1], ok |-> TRUE, rest |-> SubSeq(q, 2, Len(q))]

\* The body of Dequeue on queue q: the (item, ok) it returns and the queue it
\* leaves.
\*   if len(sq.queue) == 0 { return 0, false }
\*   item := sq.queue[0]; sq.queue = sq.queue[1:]; return item, true
SafeQueue_Dequeue_Result(q) ==
    IF Len(q) = 0
      THEN [item |-> 0, ok |-> FALSE, rest |-> q]
      ELSE [item |-> q[1], ok |-> TRUE, rest |-> SubSeq(q, 2, Len(q))]

\* Dequeue: the body, under the lock
SafeQueue_Dequeue_Body(c) ==
    /\ qcPc[c] = "d_body"
    /\ LET r == SafeQueue_Dequeue_Result(queue) IN
         /\ qcRet' = [qcRet EXCEPT ![c] = [item |-> r.item, ok |-> r.ok]]
         /\ queue' = r.rest
    /\ qcPc' = [qcPc EXCEPT ![c] = "d_unlock"]
    /\ UNCHANGED <<qMu, qItems, qpPc, qpIdx, qWg, qMainPc, enqLog, deqLog, qSeen>>
    /\ UNCHANGED qpTmp
    /\ UNCHANGED notQueue

\* Dequeue: the deferred sq.mu.Unlock(); the call returns (item, ok)
SafeQueue_Dequeue_Unlock(c) ==
    /\ qcPc[c] = "d_unlock"
    /\ qMu' = MutexUnlock(qMu)
    /\ deqLog' = Append(deqLog, qcRet[c])
    /\ qcPc' = [qcPc EXCEPT ![c] = "check"]
    /\ UNCHANGED <<queue, qItems, qpPc, qpIdx, qcRet, qWg, qMainPc, enqLog, qSeen>>
    /\ UNCHANGED qpTmp
    /\ UNCHANGED notQueue

\* consumer: if !ok { break } (then the deferred wg.Done()), else print and loop
consumer_Check(c) ==
    /\ qcPc[c] = "check"
    /\ IF ~qcRet[c].ok
         THEN /\ qcPc' = [qcPc EXCEPT ![c] = "done"]
              /\ qWg' = qWg - 1
         ELSE /\ qcPc' = [qcPc EXCEPT ![c] = "d_lock"]
              /\ UNCHANGED qWg
    /\ UNCHANGED <<qMu, queue, qItems, qpPc, qpIdx, qcRet, qMainPc, enqLog,
                   deqLog, qSeen>>
    /\ UNCHANGED qpTmp
    /\ UNCHANGED notQueue

-----------------------------------------------------------------------------
(* sync.RWMutex.  Any number of readers or one writer hold it.  A writer   *)
(* whose Lock finds readers inside announces itself and waits for them to  *)
(* leave; from the announcement on RLock suspends its caller, and Unlock   *)
(* admits every reader suspended so far.                                   *)

\* Faulty variant: RLock of an exclusive lock: a reader inside keeps other readers out
RWMutex_CanRLock_Exclusive == rwWriter = {} /\ rwPending = {} /\ rwReaders = {}

\* Faulty variant: Lock that does not keep writers apart
RWMutex_CanLock_Always == TRUE

\* Faulty variant: Lock that does not wait for the readers inside
RWMutex_ReadersIgnored == TRUE

\* RLock gets the read lock at once: no writer holds the lock or waits for it
RWMutex_CanRLock == rwWriter = {} /\ rwPending = {}

\* Lock passes the writers' inner mutex: no other writer holds or awaits the lock
RWMutex_CanLock == rwWriter = {} /\ rwPending = {}

\* Lock gets the write lock: no reader is inside
RWMutex_NoReaders == rwReaders = {}

-----------------------------------------------------------------------------
(* ReadHeavyStruct.                                                        *)

\* the key TestRWMutex writes and reads
Key == "foo"

\* fmt.Sprintf("value%d", i)
ValueOf(i) == "value" \o ToString(i)

\* Faulty variant: a lookup that reports every key as present
MapLookup_AlwaysFound(m, key) ==
    IF key \in DOMAIN m THEN [val |-> m[key], ok |-> TRUE]
                        ELSE [val |-> "", ok |-> TRUE]

\* val, exists := m[key]: a missing key yields the zero value and false
MapLookup(m, key) ==
    IF key \in DOMAIN m THEN [val |-> m[key], ok |-> TRUE]
                        ELSE [val |-> "", ok |-> FALSE]

\* Faulty variant: a store that leaves an existing entry as it is
MapStore_KeepFirst(m, key, value) ==
    [k \in DOMAIN m \cup {key} |-> IF k \in DOMAIN m THEN m[k] ELSE value]

\* m[key] = value
MapStore(m, key, value) ==
    [k \in DOMAIN m \cup {key} |-> IF k = key THEN value ELSE m[k]]

\* the map after Read(key) looked key up: a lookup stores nothing
MapAfterLookup(m, key) == m

\* make(map[string]string)
EmptyMap == [k \in {} |-> ""]

\* A ReadHeavyStruct shared by the writer goroutines ws and the readers; its
\* data field is the nil map (isNil) or the map make() returned.  A nil map
\* has no keys.
InitRWFor(isNil, ws) ==
    /\ rwReaders = {}
    /\ rwWaiting = {}
    /\ rwWriter = {}
    /\ rwPending = {}
    /\ data = EmptyMap
    /\ dataNil = isNil
    /\ rwPanic = {}
    /\ rPc = [r \in Readers |-> "for"]
    /\ rJ = [r \in Readers |-> 0]
    /\ rRet = [r \in Readers |-> [val |-> "", ok |-> FALSE]]
    /\ wPc = [w \in Writers |-> IF w \in ws THEN "for" ELSE "none"]
    /\ wI = [w \in Writers |-> 0]
    /\ wLast = <<>>
    /\ rAtCall = [r \in Readers |-> <<>>]
    /\ rAtLock = [r \in Readers |-> <<>>]

\* rhs := ReadHeavyStruct{data: make(map[string]string)}
InitRWVars == InitRWFor(FALSE, Writers)

\* history: no goroutine is inside a Write call
NoWriteInProgress == \A w \in Writers : wPc[w] \in {"for", "done", "none"}

\* writer: for i := 0; i < 5; i++ { rhs.Write("foo", fmt.Sprintf("value%d", i)) }
Writer_For(w) ==
    /\ wPc[w] = "for"
    /\ IF wI[w] < NumCalls
         THEN wPc' = [wPc EXCEPT ![w] = "w_lock"]
         ELSE wPc' = [wPc EXCEPT ![w] = "done"]
    /\ UNCHANGED <<rwReaders, rwWaiting, rwWriter, rwPending, data, rPc, rJ, rRet,
                   wI, wLast, rAtCall, rAtLock>>
    /\ UNCHANGED <<dataNil, rwPanic>>
    /\ UNCHANGED notRW

\* Write: r.mu.Lock()
ReadHeavyStruct_Write_Lock(w) ==
    /\ wPc[w] = "w_lock"
    /\ RWMutex_CanLock
    /\ IF RWMutex_NoReaders
         THEN /\ rwWriter' = {w}
              /\ wPc' = [wPc EXCEPT ![w] = "w_body"]
              /\ UNCHANGED rwPending
         ELSE /\ rwPending' = {w}
              /\ wPc' = [wPc EXCEPT ![w] = "w_wait"]
              /\ UNCHANGED rwWriter
    /\ UNCHANGED <<rwReaders, rwWaiting, data, rPc, rJ, rRet, wI, wLast, rAtCall, rAtLock>>
    /\ UNCHANGED <<dataNil, rwPanic>>
    /\ UNCHANGED notRW

\* Write: r.mu.Lock() resumes when the last reader has left
ReadHeavyStruct_Write_LockResume(w) ==
    /\ wPc[w] = "w_wait"
    /\ RWMutex_NoReaders
    /\ rwWriter' = {w}
    /\ rwPending' = {}
    /\ wPc' = [wPc EXCEPT ![w] = "w_body"]
    /\ UNCHANGED <<rwReaders, rwWaiting, data, rPc, rJ, rRet, wI, wLast, rAtCall, rAtLock>>
    /\ UNCHANGED <<dataNil, rwPanic>>
    /\ UNCHANGED notRW

\* Faulty variant: an assignment to an entry of a nil map that stores nothing
\* and goes on
MapStorePanics_Never(isNil) == FALSE

\* m[key] = value panics when m is the nil map
MapStorePanics(isNil) == isNil

\* Write: r.data[key] = value; a panic leaves the map alone and runs the
\* deferred calls
ReadHeavyStruct_Write_Body(w) ==
    /\ wPc[w] = "w_body"
    /\ IF MapStorePanics(dataNil)
         THEN /\ rwPanic' = rwPanic \cup {w}
              /\ UNCHANGED data
         ELSE /\ data' = MapStore(data, Key, ValueOf(wI[w]))
              /\ UNCHANGED rwPanic
    /\ wPc' = [wPc EXCEPT ![w] = "w_unlock"]
    /\ UNCHANGED <<rwReaders, rwWaiting, rwWriter, rwPending, rPc, rJ, rRet, wI,
                   wLast, rAtCall, rAtLock, dataNil>>
    /\ UNCHANGED notRW

\* Write: the deferred r.mu.Unlock(); then the call returns and i++, or, the
\* goroutine panicking, the panic goes on to end the program
ReadHeavyStruct_Write_Unlock(w) ==
    /\ wPc[w] = "w_unlock"
    /\ rwWriter' = {}
    /\ rwReaders' = rwWaiting
    /\ rwWaiting' = {}
    /\ IF w \in rwPanic
         THEN /\ wPc' = [wPc EXCEPT ![w] = "fatal"]
              /\ UNCHANGED <<wLast, wI>>
         ELSE /\ wLast' = <<ValueOf(wI[w])>>
              /\ wI' = [wI EXCEPT ![w] = wI[w] + 1]
              /\ wPc' = [wPc EXCEPT ![w] = "for"]
    /\ UNCHANGED <<rwPending, data, rPc, rJ, rRet, rAtCall, rAtLock>>
    /\ UNCHANGED <<dataNil, rwPanic>>
    /\ UNCHANGED notRW

\* a panic no deferred call recovers ends the program, and every goroutine
\* with it
Panic_Exit(w) ==
    /\ wPc[w] = "fatal"
    /\ wPc' = [v \in Writers |-> "killed"]
    /\ rPc' = [r \in Readers |-> "killed"]
    /\ UNCHANGED <<rwReaders, rwWaiting, rwWriter, rwPending, data, rJ, rRet, wI,
                   wLast, rAtCall, rAtLock, dataNil, rwPanic>>
    /\ UNCHANGED notRW

\* reader: for j := 0; j < 5; j++ { val, ok := rhs.Read("foo") ... }
Reader_For(r) ==
    /\ rPc[r] = "for"
    /\ IF rJ[r] < NumCalls
         THEN /\ rPc' = [rPc EXCEPT ![r] = "r_rlock"]
              /\ rAtCall' = [rAtCall EXCEPT
                               ![r] = IF NoWriteInProgress THEN wLast ELSE <<>>]
         ELSE /\ rPc' = [rPc EXCEPT ![r] = "done"]
              /\ UNCHANGED rAtCall
    /\ UNCHANGED <<rwReaders, rwWaiting, rwWriter, rwPending, data, rJ, rRet, wPc,
                   wI, wLast, rAtLock>>
    /\ UNCHANGED <<dataNil, rwPanic>>
    /\ UNCHANGED notRW

\* Read: r.mu.RLock()
ReadHeavyStruct_Read_RLock(r) ==
    /\ rPc[r] = "r_rlock"
    /\ IF RWMutex_CanRLock
         THEN /\ rwReaders' = rwReaders \cup {r}
              /\ rAtLock' = [rAtLock EXCEPT ![r] = wLast]
              /\ rPc' = [rPc EXCEPT ![r] = "r_body"]
              /\ UNCHANGED rwWaiting
         ELSE /\ rwWaiting' = rwWaiting \cup {r}
              /\ rPc' = [rPc EXCEPT ![r] = "r_wait"]
              /\ UNCHANGED <<rwReaders, rAtLock>>
    /\ UNCHANGED <<rwWriter, rwPending, data, rJ, rRet, wPc, wI, wLast, rAtCall>>
    /\ UNCHANGED <<dataNil, rwPanic>>
    /\ UNCHANGED notRW

\* Read: r.mu.RLock() resumes, the writer's Unlock having admitted the reader
ReadHeavyStruct_Read_RLockResume(r) ==
    /\ rPc[r] = "r_wait"
    /\ r \in rwReaders
    /\ rAtLock' = [rAtLock EXCEPT ![r] = wLast]
    /\ rPc' = [rPc EXCEPT ![r] = "r_body"]
    /\ UNCHANGED <<rwReaders, rwWaiting, rwWriter, rwPending, data, rJ, rRet, wPc,
                   wI, wLast, rAtCall>>
    /\ UNCHANGED <<dataNil, rwPanic>>
    /\ UNCHANGED notRW

\* Read: val, exists := r.data[key]
ReadHeavyStruct_Read_Body(r) ==
    /\ rPc[r] = "r_body"
    /\ rRet' = [rRet EXCEPT ![r] = MapLookup(data, Key)]
    /\ data' = MapAfterLookup(data, Key)
    /\ rPc' = [rPc EXCEPT ![r] = "r_unlock"]
    /\ UNCHANGED <<rwReaders, rwWaiting, rwWriter, rwPending, rJ, wPc, wI,
                   wLast, rAtCall, rAtLock>>
    /\ UNCHANGED <<dataNil, rwPanic>>
    /\ UNCHANGED notRW

\* Read: the deferred r.mu.RUnlock(); the call returns (val, exists) and j++
ReadHeavyStruct_Read_RUnlock(r) ==
    /\ rPc[r] = "r_unlock"
    /\ rwReaders' = rwReaders \ {r}
    /\ rJ' = [rJ EXCEPT ![r] = rJ[r] + 1]
    /\ rPc' = [rPc EXCEPT ![r] = "for"]
    /\ rAtCall' = [rAtCall EXCEPT ![r] = <<>>]
    /\ rAtLock' = [rAtLock EXCEPT ![r] = <<>>]
    /\ UNCHANGED <<rwWaiting, rwWriter, rwPending, data, rRet, wPc, wI, wLast>>
    /\ UNCHANGED <<dataNil, rwPanic>>
    /\ UNCHANGED notRW

-----------------------------------------------------------------------------
(* generatorWithBoring and fanIn.  The channels are unbuffered: a send and *)
(* a receive complete together.  A receive from a closed channel returns   *)
(* the zero value at once.                                                 *)

\* input1 and input2 of fanIn
Inputs == {1, 2}

\* generatorWithBoring("Joe"), generatorWithBoring("Ann")
Label(s) == IF s = 1 THEN "Joe" ELSE "Ann"

\* fmt.Sprintf("%s %d", msg, i)
Sprintf(msg, i) == msg \o " " \o ToString(i)

\* the messages producer s sends when it sends n of them
Stream(s, n) == [i \in 1..n |-> Sprintf(Label(s), i - 1)]

\* the history keeps at most this many messages
MaxLog == 2 * NumMsgs + 2

Log(h, v) == IF Len(h) < MaxLog THEN Append(h, v) ELSE h

\* Faulty variant: a loop that ends after its first iteration
MoreToSend_Never(i, limit) == FALSE

\* for i := 0; ; i++ with the number of messages to send (-1: no limit)
MoreToSend(i, limit) == limit < 0 \/ i < limit

\* Faulty variant: a loop that steps its counter by two
NextIndex_Skip(i) == i + 2

\* i++ of the producing loop
NextIndex(i) == i + 1

\* c := fanIn(input1, input2), each input fed by a goroutine that sends k
\* messages, and a consumer that receives n messages (-1: for ever)
InitFanVars(k, n) ==
    /\ inClosed = [s \in Inputs |-> FALSE]
    /\ outClosed = FALSE
    /\ gPc = [s \in Inputs |-> "send"]
    /\ gI = [s \in Inputs |-> 0]
    /\ gLimit = [s \in Inputs |-> k]
    /\ fPc = [f \in Inputs |-> "recv"]
    /\ fVal = [f \in Inputs |-> ""]
    /\ fOk = [f \in Inputs |-> TRUE]
    /\ mPc = "recv"
    /\ mN = 0
    /\ mLimit = n
    /\ received = <<>>
    /\ holding = <<>>

\* Faulty variant: a channel with a buffer, a send on it completes at once
ChanSendCompletes_Buffered(receiverReady) == TRUE

\* c := make(chan string): a send on c completes only with a receiver at <-c
ChanSendCompletes(receiverReady) == receiverReady

\* producer: c <- fmt.Sprintf("%s %d", msg, i), taken by the forwarder's <-input
Forwarder_Receive(f) ==
    /\ ChanSendCompletes(fPc[f] = "recv")
    /\ gPc[f] = "send"
    /\ ~inClosed[f]
    /\ fVal' = [fVal EXCEPT ![f] = Sprintf(Label(f), gI[f])]
    /\ fOk' = [fOk EXCEPT ![f] = TRUE]
    /\ fPc' = [fPc EXCEPT ![f] = "send"]
    /\ gPc' = [gPc EXCEPT ![f] = "sleep"]
    /\ holding' = Append(holding, f)
    /\ UNCHANGED <<inClosed, outClosed, gI, gLimit, mPc, mN, mLimit, received>>
    /\ UNCHANGED notFan

\* producer: time.Sleep(...); i++; the next iteration
Generator_Next(s) ==
    /\ gPc[s] = "sleep"
    /\ gI' = [gI EXCEPT ![s] = NextIndex(gI[s])]
    /\ gPc' = [gPc EXCEPT ![s] = IF MoreToSend(NextIndex(gI[s]), gLimit[s])
                                   THEN "send" ELSE "stop"]
    /\ UNCHANGED <<inClosed, outClosed, gLimit, fPc, fVal, fOk, mPc, mN, mLimit,
                   received, holding>>
    /\ UNCHANGED notFan

\* a producer that has sent its last message closes its channel
Producer_Close(s) ==
    /\ gPc[s] = "stop"
    /\ inClosed' = [inClosed EXCEPT ![s] = TRUE]
    /\ gPc' = [gPc EXCEPT ![s] = "closed"]
    /\ UNCHANGED <<outClosed, gI, gLimit, fPc, fVal, fOk, mPc, mN, mLimit, received,
                   holding>>
    /\ UNCHANGED notFan

\* forwarder: <-input on a closed channel yields "" without waiting
Forwarder_ReceiveClosed(f) ==
    /\ fPc[f] = "recv"
    /\ inClosed[f]
    /\ fVal' = [fVal EXCEPT ![f] = ""]
    /\ fOk' = [fOk EXCEPT ![f] = FALSE]
    /\ fPc' = [fPc EXCEPT ![f] = "send"]
    /\ holding' = Append(holding, f)
    /\ UNCHANGED <<inClosed, outClosed, gPc, gI, gLimit, mPc, mN, mLimit, received>>
    /\ UNCHANGED notFan

\* Faulty variant: a merge that delivers in the order the forwarders got their
\* values
Forwarder_CanSend_InOrder(f) ==
    fPc[f] = "send" /\ mPc = "recv" /\ holding # <<>> /\ Head(holding) = f

\* the send c <- v of forwarder f completes: the consumer is at <-c
Forwarder_CanSend(f) == fPc[f] = "send" /\ mPc = "recv"

\* forwarder: c <- (the value received), taken by the consumer's <-c;
\* the forwarder loops, the consumer counts the message
Forwarder_Send(f) ==
    /\ Forwarder_CanSend(f)
    /\ received' = IF mLimit < 0 THEN Log(received, fVal[f])
                               ELSE Append(received, fVal[f])
    /\ holding' = SelectSeq(holding, LAMBDA g : g # f)
    /\ fPc' = [fPc EXCEPT ![f] = "recv"]
    /\ IF mLimit < 0
         THEN UNCHANGED <<mPc, mN>>
         ELSE /\ mN' = mN + 1
              /\ mPc' = IF mN + 1 < mLimit THEN "recv" ELSE "done"
    /\ UNCHANGED <<inClosed, outClosed, gPc, gI, gLimit, fVal, fOk, mLimit>>
    /\ UNCHANGED notFan

-----------------------------------------------------------------------------
(* testGeneratorWithBoring: the goroutine of generatorWithBoring and the   *)
(* function that receives from its channel.                                *)

\* for i := 0; i < 5; i++ { fmt.Println(<-c) } in testGeneratorWithBoring
TestReceives == 5

\* for i := 0; i < 10; i++ { fmt.Println(<-c) } in main
MainReceives == 10

\* the msg arguments the examples pass to generatorWithBoring
Labels == {"boring!", "Joe", "Ann"}

\* c := generatorWithBoring(msg), the goroutine at the top of its loop and the
\* caller at the top of its own
InitGenVars(msg) ==
    /\ bMsg = msg
    /\ bPc = "fmt"
    /\ bI = 0
    /\ bVal = ""
    /\ bMade = 0
    /\ tPc = "for"
    /\ tI = 0
    /\ tGot = <<>>

\* goroutine: fmt.Sprintf("%s %d", msg, i), the operand of the send
generatorWithBoring_Format ==
    /\ bPc = "fmt"
    /\ bVal' = Sprintf(bMsg, bI)
    /\ bMade' = bMade + 1
    /\ bPc' = "send"
    /\ UNCHANGED <<bMsg, bI, tPc, tI, tGot>>
    /\ UNCHANGED notGen

\* goroutine: c <- (the message), taken by the caller's <-c
generatorWithBoring_Send ==
    /\ bPc = "send"
    /\ ChanSendCompletes(tPc = "recv")
    /\ IF tPc = "recv"
         THEN /\ tGot' = Append(tGot, bVal)
              /\ tPc' = "print"
         ELSE UNCHANGED <<tGot, tPc>>
    /\ bPc' = "sleep"
    /\ UNCHANGED <<bMsg, bI, bVal, bMade, tI>>
    /\ UNCHANGED notGen

\* goroutine: time.Sleep(...); i++; the next iteration of for i := 0; ; i++
generatorWithBoring_Sleep ==
    /\ bPc = "sleep"
    /\ bI' = NextIndex(bI)
    /\ bPc' = IF MoreToSend(NextIndex(bI), -1) THEN "fmt" ELSE "stop"
    /\ UNCHANGED <<bMsg, bVal, bMade, tPc, tI, tGot>>
    /\ UNCHANGED notGen

\* caller: for i := 0; i < 5; i++, then "You're boring; I'm leaving."
testGeneratorWithBoring_For ==
    /\ tPc = "for"
    /\ tPc' = IF tI < TestReceives THEN "recv" ELSE "done"
    /\ UNCHANGED <<bMsg, bPc, bI, bVal, bMade, tI, tGot>>
    /\ UNCHANGED notGen

\* caller: fmt.Println(the value received); i++
testGeneratorWithBoring_Println ==
    /\ tPc = "print"
    /\ tI' = tI + 1
    /\ tPc' = "for"
    /\ UNCHANGED <<bMsg, bPc, bI, bVal, bMade, tGot>>
    /\ UNCHANGED notGen

-----------------------------------------------------------------------------
(* testWaitGroup.                                                          *)

\* for i := 1; i <= 5; i++ { wg.Add(1); go worker(i, &wg) }
WaitGroupWorkers == 5

WgWorkers == 1..WaitGroupWorkers

\* var wg sync.WaitGroup
InitWaitGroupVars ==
    /\ wgN = 0
    /\ wgPc = [k \in WgWorkers |-> "unborn"]
    /\ wgMainPc = "for"
    /\ wgMainI = 1

\* for i := 1; i <= 5; i++ { wg.Add(1); go worker(i, &wg) }
testWaitGroup_For ==
    /\ wgMainPc = "for"
    /\ IF wgMainI <= WaitGroupWorkers
         THEN /\ wgN' = wgN + 1
              /\ wgPc' = [wgPc EXCEPT ![wgMainI] = "starting"]
              /\ wgMainI' = wgMainI + 1
              /\ UNCHANGED wgMainPc
         ELSE /\ wgMainPc' = "wait"
              /\ UNCHANGED <<wgN, wgPc, wgMainI>>
    /\ UNCHANGED notWg

\* worker: fmt.Printf("Worker %d starting\n", id)
worker_Starting(k) ==
    /\ wgPc[k] = "starting"
    /\ wgPc' = [wgPc EXCEPT ![k] = "working"]
    /\ UNCHANGED <<wgN, wgMainPc, wgMainI>>
    /\ UNCHANGED notWg

\* worker: fmt.Printf("Worker %d done\n", id)
worker_Done(k) ==
    /\ wgPc[k] = "working"
    /\ wgPc' = [wgPc EXCEPT ![k] = "return"]
    /\ UNCHANGED <<wgN, wgMainPc, wgMainI>>
    /\ UNCHANGED notWg

\* worker: the deferred wg.Done(), as the function returns
worker_Return(k) ==
    /\ wgPc[k] = "return"
    /\ wgN' = wgN - 1
    /\ wgPc' = [wgPc EXCEPT ![k] = "done"]
    /\ UNCHANGED <<wgMainPc, wgMainI>>
    /\ UNCHANGED notWg

\* wg.Wait()
testWaitGroup_Wait ==
    /\ wgMainPc = "wait"
    /\ WaitGroupCanPass(wgN)
    /\ wgMainPc' = "print"
    /\ UNCHANGED <<wgN, wgPc, wgMainI>>
    /\ UNCHANGED notWg

\* fmt.Println("All workers completed.")
testWaitGroup_Println ==
    /\ wgMainPc = "print"
    /\ wgMainPc' = "done"
    /\ UNCHANGED <<wgN, wgPc, wgMainI>>
    /\ UNCHANGED notWg

-----------------------------------------------------------------------------
(* TestMutex: five workerWithoutMutex goroutines increment the package's    *)
(* counter, then five workerWithMutex goroutines increment its              *)
(* counterWithMutex under mu.  The counters and mu are package variables:   *)
(* they keep their values from one call of TestMutex to the next.  All      *)
(* unsynchronised accesses are to one word of memory, so every load returns *)
(* the value of the latest store.                                           *)

\* times TestMutex is called in one run of the program (main calls it once)
TestMutexCalls == 2

InitTestMutexVars ==
    /\ counter = 0
    /\ counterWithMutex = 0
    /\ mu = FALSE
    /\ tmWg = 0
    /\ tmPc = "call"
    /\ tmI = 0
    /\ tmCalls = 0
    /\ uPc = [w \in Workers |-> "unborn"]
    /\ uI = [w \in Workers |-> 0]
    /\ uTmp = [w \in Workers |-> 0]
    /\ pPc = [w \in Workers |-> "unborn"]
    /\ pI = [w \in Workers |-> 0]
    /\ pTmp = [w \in Workers |-> 0]

\* TestMutex is called: var wg sync.WaitGroup
TestMutex_Call ==
    /\ tmPc = "call"
    /\ tmCalls < TestMutexCalls
    /\ tmCalls' = tmCalls + 1
    /\ tmWg' = 0
    /\ tmI' = 0
    /\ tmPc' = "spawn1"
    /\ uPc' = [w \in Workers |-> "unborn"]
    /\ uI' = [w \in Workers |-> 0]
    /\ pPc' = [w \in Workers |-> "unborn"]
    /\ pI' = [w \in Workers |-> 0]
    /\ UNCHANGED <<counter, counterWithMutex, mu, uTmp, pTmp>>
    /\ UNCHANGED notTm

\* for i := 0; i < 5; i++ { wg.Add(1); go workerWithoutMutex(&wg) }
TestMutex_SpawnWithout ==
    /\ tmPc = "spawn1"
    /\ IF tmI < NumWorkers
         THEN /\ tmWg' = tmWg + 1
              /\ uPc' = [uPc EXCEPT ![tmI + 1] = "for"]
              /\ tmI' = tmI + 1
              /\ UNCHANGED tmPc
         ELSE /\ tmPc' = "wait1"
              /\ UNCHANGED <<tmWg, uPc, tmI>>
    /\ UNCHANGED <<counter, counterWithMutex, mu, tmCalls, uI, uTmp, pPc, pI, pTmp>>
    /\ UNCHANGED notTm

\* workerWithoutMutex: for i := 0; i < 1000; i++ {...}; deferred wg.Done()
workerWithoutMutex_For(w) ==
    /\ uPc[w] = "for"
    /\ IF uI[w] < NumIncr
         THEN /\ uPc' = [uPc EXCEPT ![w] = "load"]
              /\ UNCHANGED tmWg
         ELSE /\ uPc' = [uPc EXCEPT ![w] = "done"]
              /\ tmWg' = tmWg - 1
    /\ UNCHANGED <<counter, counterWithMutex, mu, tmPc, tmI, tmCalls, uI, uTmp,
                   pPc, pI, pTmp>>
    /\ UNCHANGED notTm

\* workerWithoutMutex: counter++ reads counter
workerWithoutMutex_Load(w) ==
    /\ uPc[w] = "load"
    /\ uTmp' = [uTmp EXCEPT ![w] = counter]
    /\ uPc' = [uPc EXCEPT ![w] = "store"]
    /\ UNCHANGED <<counter, counterWithMutex, mu, tmWg, tmPc, tmI, tmCalls, uI,
                   pPc, pI, pTmp>>
    /\ UNCHANGED notTm

\* workerWithoutMutex: counter++ writes the value read plus one; i++
workerWithoutMutex_Store(w) ==
    /\ uPc[w] = "store"
    /\ counter' = Incremented(uTmp[w])
    /\ uTmp' = [uTmp EXCEPT ![w] = 0]
    /\ uI' = [uI EXCEPT ![w] = uI[w] + 1]
    /\ uPc' = [uPc EXCEPT ![w] = "for"]
    /\ UNCHANGED <<counterWithMutex, mu, tmWg, tmPc, tmI, tmCalls, pPc, pI, pTmp>>
    /\ UNCHANGED notTm

\* wg.Wait() after the first loop
TestMutex_WaitWithout ==
    /\ tmPc = "wait1"
    /\ WaitGroupCanPass(tmWg)
    /\ tmPc' = "print1"
    /\ UNCHANGED <<counter, counterWithMutex, mu, tmWg, tmI, tmCalls, uPc, uI, uTmp,
                   pPc, pI, pTmp>>
    /\ UNCHANGED notTm

\* fmt.Println("Final Counter (Without Mutex):", counter)
TestMutex_PrintWithout ==
    /\ tmPc = "print1"
    /\ tmPc' = "reset"
    /\ UNCHANGED <<counter, counterWithMutex, mu, tmWg, tmI, tmCalls, uPc, uI, uTmp,
                   pPc, pI, pTmp>>
    /\ UNCHANGED notTm

\* counter = 0
TestMutex_Reset ==
    /\ tmPc = "reset"
    /\ counter' = 0
    /\ tmI' = 0
    /\ tmPc' = "spawn2"
    /\ UNCHANGED <<counterWithMutex, mu, tmWg, tmCalls, uPc, uI, uTmp, pPc, pI, pTmp>>
    /\ UNCHANGED notTm

\* for i := 0; i < 5; i++ { wg.Add(1); go workerWithMutex(&wg) }
TestMutex_SpawnWith ==
    /\ tmPc = "spawn2"
    /\ IF tmI < NumWorkers
         THEN /\ tmWg' = tmWg + 1
              /\ pPc' = [pPc EXCEPT ![tmI + 1] = "for"]
              /\ tmI' = tmI + 1
              /\ UNCHANGED tmPc
         ELSE /\ tmPc' = "wait2"
              /\ UNCHANGED <<tmWg, pPc, tmI>>
    /\ UNCHANGED <<counter, counterWithMutex, mu, tmCalls, uPc, uI, uTmp, pI, pTmp>>
    /\ UNCHANGED notTm

\* workerWithMutex: for i := 0; i < 1000; i++ {...}; deferred wg.Done()
workerWithMutex_For(w) ==
    /\ pPc[w] = "for"
    /\ IF pI[w] < NumIncr
         THEN /\ pPc' = [pPc EXCEPT ![w] = "lock"]
              /\ UNCHANGED tmWg
         ELSE /\ pPc' = [pPc EXCEPT ![w] = "done"]
              /\ tmWg' = tmWg - 1
    /\ UNCHANGED <<counter, counterWithMutex, mu, tmPc, tmI, tmCalls, uPc, uI, uTmp,
                   pI, pTmp>>
    /\ UNCHANGED notTm

\* workerWithMutex: mu.Lock()
workerWithMutex_Lock(w) ==
    /\ pPc[w] = "lock"
    /\ MutexCanLock(mu)
    /\ mu' = TRUE
    /\ pPc' = [pPc EXCEPT ![w] = "load"]
    /\ UNCHANGED <<counter, counterWithMutex, tmWg, tmPc, tmI, tmCalls, uPc, uI,
                   uTmp, pI, pTmp>>
    /\ UNCHANGED notTm

\* workerWithMutex: counterWithMutex++ reads counterWithMutex
workerWithMutex_Load(w) ==
    /\ pPc[w] = "load"
    /\ pTmp' = [pTmp EXCEPT ![w] = counterWithMutex]
    /\ pPc' = [pPc EXCEPT ![w] = "store"]
    /\ UNCHANGED <<counter, counterWithMutex, mu, tmWg, tmPc, tmI, tmCalls, uPc,
                   uI, uTmp, pI>>
    /\ UNCHANGED notTm

\* workerWithMutex: counterWithMutex++ writes the value read plus one
workerWithMutex_Store(w) ==
    /\ pPc[w] = "store"
    /\ counterWithMutex' = Incremented(pTmp[w])
    /\ pTmp' = [pTmp EXCEPT ![w] = 0]
    /\ pPc' = [pPc EXCEPT ![w] = "unlock"]
    /\ UNCHANGED <<counter, mu, tmWg, tmPc, tmI, tmCalls, uPc, uI, uTmp, pI>>
    /\ UNCHANGED notTm

\* workerWithMutex: mu.Unlock(); i++
workerWithMutex_Unlock(w) ==
    /\ pPc[w] = "unlock"
    /\ mu' = MutexUnlock(mu)
    /\ pI' = [pI EXCEPT ![w] = pI[w] + 1]
    /\ pPc' = [pPc EXCEPT ![w] = "for"]
    /\ UNCHANGED <<counter, counterWithMutex, tmWg, tmPc, tmI, tmCalls, uPc, uI,
                   uTmp, pTmp>>
    /\ UNCHANGED notTm

\* wg.Wait() after the second loop
TestMutex_WaitWith ==
    /\ tmPc = "wait2"
    /\ WaitGroupCanPass(tmWg)
    /\ tmPc' = "print2"
    /\ UNCHANGED <<counter, counterWithMutex, mu, tmWg, tmI, tmCalls, uPc, uI, uTmp,
                   pPc, pI, pTmp>>
    /\ UNCHANGED notTm

\* fmt.Println("Final Counter (With Mutex):", counterWithMutex), and the rest
\* of TestMutex, which works on a SafeCounter of its own (modelled above and
\* not repeated here); TestMutex returns
TestMutex_PrintWith ==
    /\ tmPc = "print2"
    /\ tmPc' = "call"
    /\ UNCHANGED <<counter, counterWithMutex, mu, tmWg, tmI, tmCalls, uPc, uI, uTmp,
                   pPc, pI, pTmp>>
    /\ UNCHANGED notTm

-----------------------------------------------------------------------------
(* deadlockExample and properLockingExample: a function with a mutex and a *)
(* WaitGroup of its own starts goroutines that lock and unlock the mutex,  *)
(* and waits for them.  deadlockExample locks the mutex itself first and   *)
(* starts one goroutine; properLockingExample starts two.                  *)

\* the functions
LockExamples == {"deadlockExample", "properLockingExample"}

\* the goroutines a function starts
Goroutines(fn) == IF fn = "deadlockExample" THEN {1} ELSE {1, 2}

InitLockExampleVars(fn) ==
    /\ dFn = fn
    /\ dMu = FALSE
    /\ dWg = 0
    /\ dPc = "start"
    /\ dgPc = [g \in {1, 2} |-> "unborn"]

\* deadlockExample: mu.Lock(), never followed by an Unlock; properLockingExample
\* has no such statement
Example_Start ==
    /\ dPc = "start"
    /\ IF dFn = "deadlockExample"
         THEN /\ MutexCanLock(dMu)
              /\ dMu' = TRUE
         ELSE UNCHANGED dMu
    /\ dPc' = "add"
    /\ UNCHANGED <<dFn, dWg, dgPc>>
    /\ UNCHANGED notDl

\* wg.Add(1) in deadlockExample, wg.Add(2) in properLockingExample
Example_Add ==
    /\ dPc = "add"
    /\ dWg' = dWg + Cardinality(Goroutines(dFn))
    /\ dPc' = "go"
    /\ UNCHANGED <<dFn, dMu, dgPc>>
    /\ UNCHANGED notDl

\* the go statements
Example_Go ==
    /\ dPc = "go"
    /\ dgPc' = [g \in {1, 2} |-> IF g \in Goroutines(dFn) THEN "lock" ELSE "unborn"]
    /\ dPc' = "wait"
    /\ UNCHANGED <<dFn, dMu, dWg>>
    /\ UNCHANGED notDl

\* goroutine: mu.Lock()
Goroutine_Lock(g) ==
    /\ dgPc[g] = "lock"
    /\ MutexCanLock(dMu)
    /\ dMu' = TRUE
    /\ dgPc' = [dgPc EXCEPT ![g] = "unlock"]
    /\ UNCHANGED <<dFn, dWg, dPc>>
    /\ UNCHANGED notDl

\* goroutine: mu.Unlock() (deferred in deadlockExample)
Goroutine_Unlock(g) ==
    /\ dgPc[g] = "unlock"
    /\ dMu' = MutexUnlock(dMu)
    /\ dgPc' = [dgPc EXCEPT ![g] = "wgdone"]
    /\ UNCHANGED <<dFn, dWg, dPc>>
    /\ UNCHANGED notDl

\* goroutine: the deferred wg.Done()
Goroutine_Done(g) ==
    /\ dgPc[g] = "wgdone"
    /\ dWg' = dWg - 1
    /\ dgPc' = [dgPc EXCEPT ![g] = "done"]
    /\ UNCHANGED <<dFn, dMu, dPc>>
    /\ UNCHANGED notDl

\* wg.Wait(), after which the function returns
Example_Wait ==
    /\ dPc = "wait"
    /\ WaitGroupCanPass(dWg)
    /\ dPc' = "returned"
    /\ UNCHANGED <<dFn, dMu, dWg, dgPc>>
    /\ UNCHANGED notDl

\* every goroutine of the example waits, for the mutex or for the WaitGroup
AllAsleep ==
    /\ dPc = "wait" /\ ~WaitGroupCanPass(dWg)
    /\ \A g \in Goroutines(dFn) :
          dgPc[g] = "done" \/ (dgPc[g] = "lock" /\ ~MutexCanLock(dMu))

\* The Go runtime may end a program all of whose goroutines are asleep with
\* a fatal error (it does when the program has no other goroutine).
Runtime_AllAsleep ==
    /\ AllAsleep
    /\ dPc' = "killed"
    /\ dgPc' = [g \in {1, 2} |-> IF g \in Goroutines(dFn) THEN "killed" ELSE "unborn"]
    /\ UNCHANGED <<dFn, dMu, dWg>>
    /\ UNCHANGED notDl

-----------------------------------------------------------------------------
(* merge(nums1, m, nums2, n): merges nums2 into nums1 from the back.  A Go *)
(* slice index x is the index x + 1 of the sequence here; an index out of  *)
(* range panics.                                                           *)

\* longest m and n of the inputs
MaxLen == 2
\* largest element of the inputs
MaxVal == 2

Vals == 0..MaxVal

\* the sorted slices of n elements
Sorted(s) == \A a, b \in DOMAIN s : a < b => s[a] <= s[b]
SortedSlices(n) == {s \in [1..n -> Vals] : Sorted(s)}

\* s[x] is in range
InRange(s, x) == 0 <= x /\ x < Len(s)
\* s[x]
At(s, x) == s[x + 1]
\* s[x] = v
AtPut(s, x, v) == [s EXCEPT ![x + 1] = v]

\* Faulty variant: the comparison turned around
FromNums1_Less(a, b) == a < b

\* if nums1[i] > nums2[j]: the element placed comes from nums1
FromNums1(a, b) == a > b

\* merge is about to be called with these arguments
InitMergeVars(a, m, b, n) ==
    /\ nums1 = a
    /\ nums2 = b
    /\ mergeM = m
    /\ mergeN = n
    /\ mergeI = 0
    /\ mergeJ = 0
    /\ mergeK = 0
    /\ mergePc = "call"
    /\ nums1In = a

\* i := m - 1; j := n - 1; k := m + n - 1
merge_Enter ==
    /\ mergePc = "call"
    /\ mergeI' = mergeM - 1
    /\ mergeJ' = mergeN - 1
    /\ mergeK' = mergeM + mergeN - 1
    /\ mergePc' = "merging"
    /\ UNCHANGED <<nums1, nums2, mergeM, mergeN, nums1In>>
    /\ UNCHANGED notMerge

\* one turn of: for i >= 0 && j >= 0 { ... }
merge_Compare ==
    /\ mergePc = "merging"
    /\ IF mergeI >= 0 /\ mergeJ >= 0
         THEN IF ~(InRange(nums1, mergeI) /\ InRange(nums2, mergeJ)
                   /\ InRange(nums1, mergeK))
                THEN /\ mergePc' = "panic"
                     /\ UNCHANGED <<nums1, mergeI, mergeJ, mergeK>>
                ELSE /\ IF FromNums1(At(nums1, mergeI), At(nums2, mergeJ))
                          THEN /\ nums1' = AtPut(nums1, mergeK, At(nums1, mergeI))
                               /\ mergeI' = mergeI - 1
                               /\ UNCHANGED mergeJ
                          ELSE /\ nums1' = AtPut(nums1, mergeK, At(nums2, mergeJ))
                               /\ mergeJ' = mergeJ - 1
                               /\ UNCHANGED mergeI
                     /\ mergeK' = mergeK - 1
                     /\ UNCHANGED mergePc
         ELSE /\ mergePc' = "copying"
              /\ UNCHANGED <<nums1, mergeI, mergeJ, mergeK>>
    /\ UNCHANGED <<nums2, mergeM, mergeN, nums1In>>
    /\ UNCHANGED notMerge

\* one turn of: for j >= 0 { nums1[k] = nums2[j]; j--; k-- }; then merge returns
merge_Copy ==
    /\ mergePc = "copying"
    /\ IF mergeJ >= 0
         THEN IF ~(InRange(nums2, mergeJ) /\ InRange(nums1, mergeK))
                THEN /\ mergePc' = "panic"
                     /\ UNCHANGED <<nums1, mergeJ, mergeK>>
                ELSE /\ nums1' = AtPut(nums1, mergeK, At(nums2, mergeJ))
                     /\ mergeJ' = mergeJ - 1
                     /\ mergeK' = mergeK - 1
                     /\ UNCHANGED mergePc
         ELSE /\ mergePc' = "done"
              /\ UNCHANGED <<nums1, mergeJ, mergeK>>
    /\ UNCHANGED <<nums2, mergeM, mergeN, mergeI, nums1In>>
    /\ UNCHANGED notMerge

-----------------------------------------------------------------------------
(* split(sum).  x and y are Go ints; the division of ints truncates toward *)
(* zero.                                                                   *)

\* largest |sum| of the inputs
MaxSum == 60

Sums == (0 - MaxSum)..MaxSum

\* a / b for ints, b > 0
IntDiv(a, b) == IF a >= 0 THEN a \div b ELSE 0 - ((0 - a) \div b)

\* split is about to be called with sum
InitSplitVars(s) ==
    /\ splitSum = s
    /\ splitX = 0
    /\ splitY = 0
    /\ splitPc = "call"

\* x = sum * 4 / 9; y = sum - x; return
split_Call ==
    /\ splitPc = "call"
    /\ splitX' = IntDiv(splitSum * 4, 9)
    /\ splitY' = splitSum - IntDiv(splitSum * 4, 9)
    /\ splitPc' = "returned"
    /\ UNCHANGED splitSum
    /\ UNCHANGED notSplit

\* The later examples as the program starts them: TestMutex not called yet,
\* deadlockExample, merge with the arguments of the README's main, split(17)
InitLaterVars ==
    /\ InitTestMutexVars
    /\ InitLockExampleVars("deadlockExample")
    /\ InitMergeVars(<<1, 3, 5, 0, 0, 0>>, 3, <<2, 4, 6>>, 3)
    /\ InitSplitVars(17)

-----------------------------------------------------------------------------
(* The specifications: one per example, from the same initial state.       *)

\* Each example as its test function sets it up; the inputs of fanIn deliver
\* NumMsgs messages each and the consumer of the merged channel keeps receiving.
Init ==
    /\ InitCounterVars
    /\ InitObsVars
    /\ InitQueueVars(1, 1)
    /\ InitRWVars
    /\ InitFanVars(NumMsgs, -1)
    /\ InitGenVars("boring!")
    /\ InitWaitGroupVars
    /\ InitLaterVars

\* TestSafeCounter
NextCounter ==
    \/ TestSafeCounter_Spawn
    \/ \E w \in Workers : Worker_For(w)
    \/ \E w \in Workers : SafeCounter_Increment_Lock(w)
    \/ \E w \in Workers : SafeCounter_Increment_Load(w)
    \/ \E w \in Workers : SafeCounter_Increment_Store(w)
    \/ \E w \in Workers : SafeCounter_Increment_Unlock(w)
    \/ TestSafeCounter_Wait
    \/ SafeCounter_Value_Lock
    \/ SafeCounter_Value_Read
    \/ SafeCounter_Value_Unlock

SpecCounter == Init /\ [][NextCounter]_vars

\* TestSafeQueue
NextQueue ==
    \/ TestSafeQueue_GoProducer
    \/ TestSafeQueue_GoConsumer
    \/ TestSafeQueue_Wait
    \/ \E p \in Producers : producer_Range(p)
    \/ \E p \in Producers : SafeQueue_Enqueue_Lock(p)
    \/ \E p \in Producers : SafeQueue_Enqueue_Load(p)
    \/ \E p \in Producers : SafeQueue_Enqueue_Append(p)
    \/ \E p \in Producers : SafeQueue_Enqueue_Unlock(p)
    \/ \E c \in Consumers : SafeQueue_Dequeue_Lock(c)
    \/ \E c \in Consumers : SafeQueue_Dequeue_Body(c)
    \/ \E c \in Consumers : SafeQueue_Dequeue_Unlock(c)
    \/ \E c \in Consumers : consumer_Check(c)

SpecQueue == Init /\ [][NextQueue]_vars

\* TestRWMutex
NextRW ==
    \/ \E w \in Writers : Writer_For(w)
    \/ \E w \in Writers : ReadHeavyStruct_Write_Lock(w)
    \/ \E w \in Writers : ReadHeavyStruct_Write_LockResume(w)
    \/ \E w \in Writers : ReadHeavyStruct_Write_Body(w)
    \/ \E w \in Writers : ReadHeavyStruct_Write_Unlock(w)
    \/ \E r \in Readers : Reader_For(r)
    \/ \E r \in Readers : ReadHeavyStruct_Read_RLock(r)
    \/ \E r \in Readers : ReadHeavyStruct_Read_RLockResume(r)
    \/ \E r \in Readers : ReadHeavyStruct_Read_Body(r)
    \/ \E r \in Readers : ReadHeavyStruct_Read_RUnlock(r)

SpecRW == Init /\ [][NextRW]_vars

\* fanIn over two finite producers
NextFanIn ==
    \/ \E f \in Inputs : Forwarder_Receive(f)
    \/ \E f \in Inputs : Forwarder_ReceiveClosed(f)
    \/ \E f \in Inputs : Forwarder_Send(f)
    \/ \E s \in Inputs : Generator_Next(s)
    \/ \E s \in Inputs : Producer_Close(s)

SpecFanIn == Init /\ [][NextFanIn]_vars

\* The Go scheduler runs every goroutine that can take a step.
FairSpecFanIn ==
    /\ SpecFanIn
    /\ \A f \in Inputs : WF_vars(Forwarder_Receive(f))
    /\ \A f \in Inputs : WF_vars(Forwarder_ReceiveClosed(f))
    /\ \A f \in Inputs : WF_vars(Forwarder_Send(f))
    /\ \A s \in Inputs : WF_vars(Generator_Next(s))

\* TestSafeCounter with one more goroutine, which calls Value() while the
\* others increment
NextCounterClients ==
    \/ TestSafeCounter_Spawn
    \/ \E w \in Workers : Worker_For(w)
    \/ \E w \in Workers : SafeCounter_Increment_Lock(w)
    \/ \E w \in Workers : SafeCounter_Increment_Load(w)
    \/ \E w \in Workers : SafeCounter_Increment_Store(w)
    \/ \E w \in Workers : SafeCounter_Increment_Unlock(w)
    \/ TestSafeCounter_Wait
    \/ SafeCounter_Value_Lock
    \/ SafeCounter_Value_Read
    \/ SafeCounter_Value_Unlock
    \/ Observer_Call
    \/ Observer_Value_Lock
    \/ Observer_Value_Read
    \/ Observer_Value_Unlock

SpecCounterClients == Init /\ [][NextCounterClients]_vars

\* TestSafeQueue with two producers and two consumers
InitClients ==
    /\ InitCounterVars
    /\ InitObsVars
    /\ InitQueueClients
    /\ InitRWVars
    /\ InitFanVars(NumMsgs, -1)
    /\ InitGenVars("boring!")
    /\ InitWaitGroupVars
    /\ InitLaterVars

SpecQueueClients == InitClients /\ [][NextQueue]_vars

\* One of the three lock-protected examples runs: a step of one is taken only
\* while the other two have not started, that is, while their goroutines are
\* where the initial state puts them.
CounterIdle == cMainPc = "spawn" /\ cMainI = 0 /\ oPc = "call"
QueueIdle == qMainPc = "go_producer" /\ \A p \in Producers : qpPc[p] = "unborn"
RWIdle ==
    /\ \A w \in Writers : wPc[w] = "for" /\ wI[w] = 0
    /\ \A r \in Readers : rPc[r] = "for" /\ rJ[r] = 0

OnlyCounter == QueueIdle /\ RWIdle
OnlyQueue == CounterIdle /\ RWIdle
OnlyRW == CounterIdle /\ QueueIdle

\* the next step of each goroutine of the three examples
Worker_Step(w) ==
    \/ Worker_For(w)
    \/ SafeCounter_Increment_Lock(w)
    \/ SafeCounter_Increment_Load(w)
    \/ SafeCounter_Increment_Store(w)
    \/ SafeCounter_Increment_Unlock(w)

TestSafeCounter_Step ==
    \/ TestSafeCounter_Spawn
    \/ TestSafeCounter_Wait
    \/ SafeCounter_Value_Lock
    \/ SafeCounter_Value_Read
    \/ SafeCounter_Value_Unlock

Observer_Step ==
    \/ Observer_Call
    \/ Observer_Value_Lock
    \/ Observer_Value_Read
    \/ Observer_Value_Unlock

TestSafeQueue_Step ==
    \/ TestSafeQueue_GoProducer
    \/ TestSafeQueue_GoConsumer
    \/ TestSafeQueue_Wait

producer_Step(p) ==
    \/ producer_Range(p)
    \/ SafeQueue_Enqueue_Lock(p)
    \/ SafeQueue_Enqueue_Load(p)
    \/ SafeQueue_Enqueue_Append(p)
    \/ SafeQueue_Enqueue_Unlock(p)

consumer_Step(c) ==
    \/ SafeQueue_Dequeue_Lock(c)
    \/ SafeQueue_Dequeue_Body(c)
    \/ SafeQueue_Dequeue_Unlock(c)
    \/ consumer_Check(c)

Writer_Step(w) ==
    \/ Writer_For(w)
    \/ ReadHeavyStruct_Write_Lock(w)
    \/ ReadHeavyStruct_Write_LockResume(w)
    \/ ReadHeavyStruct_Write_Body(w)
    \/ ReadHeavyStruct_Write_Unlock(w)

Reader_Step(r) ==
    \/ Reader_For(r)
    \/ ReadHeavyStruct_Read_RLock(r)
    \/ ReadHeavyStruct_Read_RLockResume(r)
    \/ ReadHeavyStruct_Read_Body(r)
    \/ ReadHeavyStruct_Read_RUnlock(r)

NextMutexes ==
    \/ OnlyCounter /\ TestSafeCounter_Spawn
    \/ \E w \in Workers : OnlyCounter /\ Worker_For(w)
    \/ \E w \in Workers : OnlyCounter /\ SafeCounter_Increment_Lock(w)
    \/ \E w \in Workers : OnlyCounter /\ SafeCounter_Increment_Load(w)
    \/ \E w \in Workers : OnlyCounter /\ SafeCounter_Increment_Store(w)
    \/ \E w \in Workers : OnlyCounter /\ SafeCounter_Increment_Unlock(w)
    \/ OnlyCounter /\ TestSafeCounter_Wait
    \/ OnlyCounter /\ SafeCounter_Value_Lock
    \/ OnlyCounter /\ SafeCounter_Value_Read
    \/ OnlyCounter /\ SafeCounter_Value_Unlock
    \/ OnlyCounter /\ Observer_Call
    \/ OnlyCounter /\ Observer_Value_Lock
    \/ OnlyCounter /\ Observer_Value_Read
    \/ OnlyCounter /\ Observer_Value_Unlock
    \/ OnlyQueue /\ TestSafeQueue_GoProducer
    \/ OnlyQueue /\ TestSafeQueue_GoConsumer
    \/ OnlyQueue /\ TestSafeQueue_Wait
    \/ \E p \in Producers : OnlyQueue /\ producer_Range(p)
    \/ \E p \in Producers : OnlyQueue /\ SafeQueue_Enqueue_Lock(p)
    \/ \E p \in Producers : OnlyQueue /\ SafeQueue_Enqueue_Load(p)
    \/ \E p \in Producers : OnlyQueue /\ SafeQueue_Enqueue_Append(p)
    \/ \E p \in Producers : OnlyQueue /\ SafeQueue_Enqueue_Unlock(p)
    \/ \E c \in Consumers : OnlyQueue /\ SafeQueue_Dequeue_Lock(c)
    \/ \E c \in Consumers : OnlyQueue /\ SafeQueue_Dequeue_Body(c)
    \/ \E c \in Consumers : OnlyQueue /\ SafeQueue_Dequeue_Unlock(c)
    \/ \E c \in Consumers : OnlyQueue /\ consumer_Check(c)
    \/ \E w \in Writers : OnlyRW /\ Writer_For(w)
    \/ \E w \in Writers : OnlyRW /\ ReadHeavyStruct_Write_Lock(w)
    \/ \E w \in Writers : OnlyRW /\ ReadHeavyStruct_Write_LockResume(w)
    \/ \E w \in Writers : OnlyRW /\ ReadHeavyStruct_Write_Body(w)
    \/ \E w \in Writers : OnlyRW /\ ReadHeavyStruct_Write_Unlock(w)
    \/ \E r \in Readers : OnlyRW /\ Reader_For(r)
    \/ \E r \in Readers : OnlyRW /\ ReadHeavyStruct_Read_RLock(r)
    \/ \E r \in Readers : OnlyRW /\ ReadHeavyStruct_Read_RLockResume(r)
    \/ \E r \in Readers : OnlyRW /\ ReadHeavyStruct_Read_Body(r)
    \/ \E r \in Readers : OnlyRW /\ ReadHeavyStruct_Read_RUnlock(r)

SpecMutexes == InitClients /\ [][NextMutexes]_vars

\* The Go scheduler runs every goroutine that can take a step.
FairSpecMutexes ==
    /\ SpecMutexes
    /\ \A w \in Workers : WF_vars(OnlyCounter /\ Worker_Step(w))
    /\ WF_vars(OnlyCounter /\ TestSafeCounter_Step)
    /\ WF_vars(OnlyCounter /\ Observer_Step)
    /\ WF_vars(OnlyQueue /\ TestSafeQueue_Step)
    /\ \A p \in {1, 2} : WF_vars(OnlyQueue /\ producer_Step(p))
    /\ \A c \in {1, 2} : WF_vars(OnlyQueue /\ consumer_Step(c))
    /\ \A w \in Writers : WF_vars(OnlyRW /\ Writer_Step(w))
    /\ \A r \in Readers : WF_vars(OnlyRW /\ Reader_Step(r))

\* testGeneratorWithBoring, for each msg the examples use
InitGenerator ==
    /\ InitCounterVars
    /\ InitObsVars
    /\ InitQueueVars(1, 1)
    /\ InitRWVars
    /\ InitFanVars(NumMsgs, -1)
    /\ \E msg \in Labels : InitGenVars(msg)
    /\ InitWaitGroupVars
    /\ InitLaterVars

NextGenerator ==
    \/ generatorWithBoring_Format
    \/ generatorWithBoring_Send
    \/ generatorWithBoring_Sleep
    \/ testGeneratorWithBoring_For
    \/ testGeneratorWithBoring_Println

SpecGenerator == InitGenerator /\ [][NextGenerator]_vars

\* The two programs of the patterns file, testGeneratorWithBoring and main
\* (fanIn over two generators that never stop, ten receives): one of them
\* runs, a step of one is taken only while the other has not started.
InitDemos ==
    /\ InitCounterVars
    /\ InitObsVars
    /\ InitQueueVars(1, 1)
    /\ InitRWVars
    /\ InitFanVars(-1, MainReceives)
    /\ InitGenVars("boring!")
    /\ InitWaitGroupVars
    /\ InitLaterVars

GenIdle == bPc = "fmt" /\ bMade = 0 /\ tPc = "for" /\ tI = 0
FanIdle == mN = 0 /\ \A s \in Inputs : gPc[s] = "send" /\ gI[s] = 0 /\ fPc[s] = "recv"

NextDemos ==
    \/ FanIdle /\ generatorWithBoring_Format
    \/ FanIdle /\ generatorWithBoring_Send
    \/ FanIdle /\ generatorWithBoring_Sleep
    \/ FanIdle /\ testGeneratorWithBoring_For
    \/ FanIdle /\ testGeneratorWithBoring_Println
    \/ \E f \in Inputs : GenIdle /\ Forwarder_Receive(f)
    \/ \E f \in Inputs : GenIdle /\ Forwarder_Send(f)
    \/ \E s \in Inputs : GenIdle /\ Generator_Next(s)

SpecDemos == InitDemos /\ [][NextDemos]_vars

\* The Go scheduler runs every goroutine that can take a step.
FairSpecDemos ==
    /\ SpecDemos
    /\ WF_vars(FanIdle /\ generatorWithBoring_Format)
    /\ WF_vars(FanIdle /\ generatorWithBoring_Send)
    /\ WF_vars(FanIdle /\ generatorWithBoring_Sleep)
    /\ WF_vars(FanIdle /\ testGeneratorWithBoring_For)
    /\ WF_vars(FanIdle /\ testGeneratorWithBoring_Println)
    /\ \A f \in Inputs : WF_vars(GenIdle /\ Forwarder_Receive(f))
    /\ \A f \in Inputs : WF_vars(GenIdle /\ Forwarder_Send(f))
    /\ \A s \in Inputs : WF_vars(GenIdle /\ Generator_Next(s))

\* testWaitGroup
NextWaitGroup ==
    \/ testWaitGroup_For
    \/ \E k \in WgWorkers : worker_Starting(k)
    \/ \E k \in WgWorkers : worker_Done(k)
    \/ \E k \in WgWorkers : worker_Return(k)
    \/ testWaitGroup_Wait
    \/ testWaitGroup_Println

SpecWaitGroup == Init /\ [][NextWaitGroup]_vars

\* The Go scheduler runs every goroutine that can take a step.
FairSpecWaitGroup ==
    /\ SpecWaitGroup
    /\ WF_vars(testWaitGroup_For)
    /\ WF_vars(testWaitGroup_Wait)
    /\ WF_vars(testWaitGroup_Println)
    /\ \A k \in WgWorkers : WF_vars(worker_Starting(k))
    /\ \A k \in WgWorkers : WF_vars(worker_Done(k))
    /\ \A k \in WgWorkers : WF_vars(worker_Return(k))

\* the examples of the first half as Init starts them
InitEarlyVars ==
    /\ InitCounterVars
    /\ InitObsVars
    /\ InitQueueVars(1, 1)
    /\ InitRWVars
    /\ InitFanVars(NumMsgs, -1)
    /\ InitGenVars("boring!")
    /\ InitWaitGroupVars

\* TestMutex, called TestMutexCalls times
NextTestMutex ==
    \/ TestMutex_Call
    \/ TestMutex_SpawnWithout
    \/ \E w \in Workers : workerWithoutMutex_For(w)
    \/ \E w \in Workers : workerWithoutMutex_Load(w)
    \/ \E w \in Workers : workerWithoutMutex_Store(w)
    \/ TestMutex_WaitWithout
    \/ TestMutex_PrintWithout
    \/ TestMutex_Reset
    \/ TestMutex_SpawnWith
    \/ \E w \in Workers : workerWithMutex_For(w)
    \/ \E w \in Workers : workerWithMutex_Lock(w)
    \/ \E w \in Workers : workerWithMutex_Load(w)
    \/ \E w \in Workers : workerWithMutex_Store(w)
    \/ \E w \in Workers : workerWithMutex_Unlock(w)
    \/ TestMutex_WaitWith
    \/ TestMutex_PrintWith

SpecTestMutex == Init /\ [][NextTestMutex]_vars

\* TestMutex, deadlockExample and properLockingExample: one of them runs, a
\* step of TestMutex is taken only while the lock example has not started
\* and the other way round.
InitLockExamples ==
    /\ InitEarlyVars
    /\ InitTestMutexVars
    /\ \E fn \in LockExamples : InitLockExampleVars(fn)
    /\ InitMergeVars(<<1, 3, 5, 0, 0, 0>>, 3, <<2, 4, 6>>, 3)
    /\ InitSplitVars(17)

TmIdle == tmPc = "call" /\ tmCalls = 0
LockIdle == dPc = "start"

NextLockExamples ==
    \/ LockIdle /\ TestMutex_Call
    \/ LockIdle /\ TestMutex_SpawnWithout
    \/ LockIdle /\ \E w \in Workers : workerWithoutMutex_For(w)
    \/ LockIdle /\ \E w \in Workers : workerWithoutMutex_Load(w)
    \/ LockIdle /\ \E w \in Workers : workerWithoutMutex_Store(w)
    \/ LockIdle /\ TestMutex_WaitWithout
    \/ LockIdle /\ TestMutex_PrintWithout
    \/ LockIdle /\ TestMutex_Reset
    \/ LockIdle /\ TestMutex_SpawnWith
    \/ LockIdle /\ \E w \in Workers : workerWithMutex_For(w)
    \/ LockIdle /\ \E w \in Workers : workerWithMutex_Lock(w)
    \/ LockIdle /\ \E w \in Workers : workerWithMutex_Load(w)
    \/ LockIdle /\ \E w \in Workers : workerWithMutex_Store(w)
    \/ LockIdle /\ \E w \in Workers : workerWithMutex_Unlock(w)
    \/ LockIdle /\ TestMutex_WaitWith
    \/ LockIdle /\ TestMutex_PrintWith
    \/ TmIdle /\ Example_Start
    \/ TmIdle /\ Example_Add
    \/ TmIdle /\ Example_Go
    \/ TmIdle /\ \E g \in {1, 2} : Goroutine_Lock(g)
    \/ TmIdle /\ \E g \in {1, 2} : Goroutine_Unlock(g)
    \/ TmIdle /\ \E g \in {1, 2} : Goroutine_Done(g)
    \/ TmIdle /\ Example_Wait
    \/ TmIdle /\ Runtime_AllAsleep

SpecLockExamples == InitLockExamples /\ [][NextLockExamples]_vars

\* The scheduler runs every goroutine that can take a step.  The runtime's
\* fatal error is not forced: a program with other goroutines never gets it.
FairSpecLockExamples ==
    /\ SpecLockExamples
    /\ WF_vars(TmIdle /\ Example_Start)
    /\ WF_vars(TmIdle /\ Example_Add)
    /\ WF_vars(TmIdle /\ Example_Go)
    /\ \A g \in {1, 2} : WF_vars(TmIdle /\ Goroutine_Lock(g))
    /\ \A g \in {1, 2} : WF_vars(TmIdle /\ Goroutine_Unlock(g))
    /\ \A g \in {1, 2} : WF_vars(TmIdle /\ Goroutine_Done(g))
    /\ WF_vars(TmIdle /\ Example_Wait)

\* merge, for every m and n up to MaxLen, every sorted nums2 of n elements and
\* every nums1 of m + n elements whose first m are sorted
InitMerge ==
    /\ InitEarlyVars
    /\ InitTestMutexVars
    /\ InitLockExampleVars("deadlockExample")
    /\ \E m, n \in 0..MaxLen :
          \E a \in SortedSlices(m), t \in [1..n -> Vals], b \in SortedSlices(n) :
             InitMergeVars(a \o t, m, b, n)
    /\ InitSplitVars(17)

NextMerge ==
    \/ merge_Enter
    \/ merge_Compare
    \/ merge_Copy

SpecMerge == InitMerge /\ [][NextMerge]_vars

\* split, for every sum in Sums
InitSplit ==
    /\ InitEarlyVars
    /\ InitTestMutexVars
    /\ InitLockExampleVars("deadlockExample")
    /\ InitMergeVars(<<1, 3, 5, 0, 0, 0>>, 3, <<2, 4, 6>>, 3)
    /\ \E s \in Sums : InitSplitVars(s)

NextSplit == split_Call

SpecSplit == InitSplit /\ [][NextSplit]_vars

\* TestSafeQueue under a scheduler that runs every goroutine that can take a
\* step
FairSpecQueue ==
    /\ SpecQueue
    /\ WF_vars(TestSafeQueue_Step)
    /\ \A p \in {1} : WF_vars(producer_Step(p))
    /\ \A c \in {1} : WF_vars(consumer_Step(c))

\* TestRWMutex: one writer goroutine, and the readers
InitRWTest ==
    /\ InitCounterVars
    /\ InitObsVars
    /\ InitQueueVars(1, 1)
    /\ InitRWFor(FALSE, {1})
    /\ InitFanVars(NumMsgs, -1)
    /\ InitGenVars("boring!")
    /\ InitWaitGroupVars
    /\ InitLaterVars

SpecRWTest == InitRWTest /\ [][NextRW]_vars

\* The three structs as their zero values: SafeCounter{} and SafeQueue{} as
\* the tests make them, and a ReadHeavyStruct whose data was never initialised
\* (var rhs ReadHeavyStruct), each with its goroutines; one example runs.
InitZeroValues ==
    /\ InitCounterVars
    /\ InitObsVars
    /\ InitQueueVars(1, 1)
    /\ InitRWFor(TRUE, Writers)
    /\ InitFanVars(NumMsgs, -1)
    /\ InitGenVars("boring!")
    /\ InitWaitGroupVars
    /\ InitLaterVars

NextZeroValues ==
    \/ OnlyCounter /\ TestSafeCounter_Spawn
    \/ OnlyCounter /\ \E w \in Workers : Worker_For(w)
    \/ OnlyCounter /\ \E w \in Workers : SafeCounter_Increment_Lock(w)
    \/ OnlyCounter /\ \E w \in Workers : SafeCounter_Increment_Load(w)
    \/ OnlyCounter /\ \E w \in Workers : SafeCounter_Increment_Store(w)
    \/ OnlyCounter /\ \E w \in Workers : SafeCounter_Increment_Unlock(w)
    \/ OnlyCounter /\ TestSafeCounter_Wait
    \/ OnlyCounter /\ SafeCounter_Value_Lock
    \/ OnlyCounter /\ SafeCounter_Value_Read
    \/ OnlyCounter /\ SafeCounter_Value_Unlock
    \/ OnlyQueue /\ TestSafeQueue_GoProducer
    \/ OnlyQueue /\ TestSafeQueue_GoConsumer
    \/ OnlyQueue /\ TestSafeQueue_Wait
    \/ OnlyQueue /\ \E p \in Producers : producer_Range(p)
    \/ OnlyQueue /\ \E p \in Producers : SafeQueue_Enqueue_Lock(p)
    \/ OnlyQueue /\ \E p \in Producers : SafeQueue_Enqueue_Load(p)
    \/ OnlyQueue /\ \E p \in Producers : SafeQueue_Enqueue_Append(p)
    \/ OnlyQueue /\ \E p \in Producers : SafeQueue_Enqueue_Unlock(p)
    \/ OnlyQueue /\ \E c \in Consumers : SafeQueue_Dequeue_Lock(c)
    \/ OnlyQueue /\ \E c \in Consumers : SafeQueue_Dequeue_Body(c)
    \/ OnlyQueue /\ \E c \in Consumers : SafeQueue_Dequeue_Unlock(c)
    \/ OnlyQueue /\ \E c \in Consumers : consumer_Check(c)
    \/ OnlyRW /\ \E w \in Writers : Writer_For(w)
    \/ OnlyRW /\ \E w \in Writers : ReadHeavyStruct_Write_Lock(w)
    \/ OnlyRW /\ \E w \in Writers : ReadHeavyStruct_Write_LockResume(w)
    \/ OnlyRW /\ \E w \in Writers : ReadHeavyStruct_Write_Body(w)
    \/ OnlyRW /\ \E w \in Writers : ReadHeavyStruct_Write_Unlock(w)
    \/ OnlyRW /\ \E r \in Readers : Reader_For(r)
    \/ OnlyRW /\ \E r \in Readers : ReadHeavyStruct_Read_RLock(r)
    \/ OnlyRW /\ \E r \in Readers : ReadHeavyStruct_Read_RLockResume(r)
    \/ OnlyRW /\ \E r \in Readers : ReadHeavyStruct_Read_Body(r)
    \/ OnlyRW /\ \E r \in Readers : ReadHeavyStruct_Read_RUnlock(r)
    \/ OnlyRW /\ \E w \in Writers : Panic_Exit(w)

SpecZeroValues == InitZeroValues /\ [][NextZeroValues]_vars


-----------------------------------------------------------------------------
(* The claims.                                                             *)

\* C1: for a SafeCounter starting at 0 on which NumWorkers goroutines call
\* Increment NumIncr times each, the counter holds NumWorkers * NumIncr once
\* they have all returned, and that is what Value() returns, in every
\* interleaving (no update is lost).
C1_NoLostUpdates ==
    /\ (\A w \in Workers : cPc[w] = "done") => cValue = NumWorkers * NumIncr
    /\ cMainPc \in {"v_unlock", "done"} => cResult = NumWorkers * NumIncr

\* C1, witness: Value() has returned the product after concurrent increments.
C1_ValueReturned ==
    /\ cMainPc = "done"
    /\ cResult = NumWorkers * NumIncr
    /\ \A w \in Workers : cJ[w] = NumIncr /\ cJ[w] > 1

\* C2: with one producer and one consumer, Dequeue returns the items in the
\* order they were enqueued: the i-th Dequeue that returns ok returns the i-th
\* item enqueued, a Dequeue that finds the queue non-empty returns its head with
\* ok = true, and the queue is always the tail end of what was enqueued.
C2_FifoOrder ==
    /\ Len(Consumed) <= Len(enqLog)
    /\ \A i \in 1..Len(Consumed) : Consumed[i].item = enqLog[i]
    /\ \A i \in 1..Len(enqLog) : enqLog[i] = TestItems[i]
    /\ queue = SubSeq(enqLog, Len(enqLog) - Len(queue) + 1, Len(enqLog))
    /\ \A c \in Consumers :
         (qcPc[c] = "d_unlock" /\ qSeen[c] # <<>>)
           => qcRet[c] = [item |-> qSeen[c][1], ok |-> TRUE]

\* C2, witness: 1, 2, 3, 4, 5 were enqueued and five Dequeue calls returned
\* them, each with ok = true.
C2_FiveDequeued ==
    /\ enqLog = TestItems
    /\ Len(deqLog) >= 5
    /\ \A i \in 1..5 : deqLog[i] = [item |-> i, ok |-> TRUE]

\* C3: Dequeue on an empty SafeQueue returns (0, false) and leaves the queue
\* empty, and its body never waits: once it holds the lock it can proceed
\* whatever the queue holds.
C3_EmptyDequeue ==
    \A c \in Consumers :
      /\ (qcPc[c] = "d_unlock" /\ qSeen[c] = <<>>)
           => (qcRet[c] = [item |-> 0, ok |-> FALSE] /\ queue = <<>>)
      /\ qcPc[c] = "d_body" => ENABLED SafeQueue_Dequeue_Body(c)
      /\ \A i \in 1..Len(deqLog) : ~deqLog[i].ok => deqLog[i].item = 0

\* C3, witness: a Dequeue on a queue drained by earlier Dequeue calls is about
\* to return.
C3_DrainedDequeue ==
    \E c \in Consumers :
      /\ qcPc[c] = "d_unlock"
      /\ qSeen[c] = <<>>
      /\ Len(Consumed) > 0
      /\ ~qcRet[c].ok

\* C4 as claimed: after Write(k, v) has returned, every Read(k) that starts
\* before any later Write to k starts returns (v, true).
C4_ReadStartedBeforeLaterWrite ==
    \A r \in Readers :
      (rPc[r] = "r_unlock" /\ rAtCall[r] # <<>>)
        => rRet[r] = [val |-> rAtCall[r][1], ok |-> TRUE]

\* C4, amended: after Write(k, v) has returned, every Read(k) that gets its read
\* lock before any later Write to k gets the write lock returns (v, true), from
\* any goroutine; and the last Write that returned wins: whenever no Write has
\* stored without having returned, the map holds the value of the last Write
\* that returned.
C4_ReadSeesLastWrite ==
    /\ \A r \in Readers :
         (rPc[r] = "r_unlock" /\ rAtLock[r] # <<>>)
           => rRet[r] = [val |-> rAtLock[r][1], ok |-> TRUE]
    /\ ((\A w \in Writers : wPc[w] # "w_unlock") /\ wLast # <<>>)
         => (Key \in DOMAIN data /\ data[Key] = wLast[1])

\* C4, witness: a Read returns the value of the second Write of a writer, the
\* last that returned before the Read got its lock.
C4_ReadOfRewrittenKey ==
    \E r \in Readers :
      /\ rPc[r] = "r_unlock"
      /\ rAtLock[r] = <<ValueOf(1)>>
      /\ rRet[r] = [val |-> ValueOf(1), ok |-> TRUE]

InRead(r) == rPc[r] \in {"r_body", "r_unlock"}
InWrite(w) == wPc[w] \in {"w_body", "w_unlock"}

\* C5: no Read is inside its critical section while a Write is inside its own,
\* and no two Writes are inside their critical sections at the same time.
C5_WriterExcludesAll ==
    /\ \A r \in Readers, w \in Writers : ~(InRead(r) /\ InWrite(w))
    /\ \A w1, w2 \in Writers : (InWrite(w1) /\ InWrite(w2)) => w1 = w2

\* C5, witness: a Write is inside its critical section while the other writer
\* and a reader are kept waiting.
C5_WriterInsideOthersWait ==
    \E w1, w2 \in Writers, r \in Readers :
      /\ w1 # w2
      /\ InWrite(w1)
      /\ wPc[w2] = "w_lock"
      /\ rPc[r] = "r_wait"

\* C6 as claimed: a Read's lock acquisition suspends only if a writer currently
\* holds the lock.
C6_SuspendedOnlyByHolder ==
    \A r \in Readers : r \in rwWaiting => rwWriter # {}

\* C6, amended: Reads do not block each other, and a Read's lock acquisition
\* suspends only if a writer holds the lock or is waiting to acquire it.
C6_SuspendedOnlyByWriter ==
    /\ \A r \in Readers : r \in rwWaiting => (rwWriter # {} \/ rwPending # {})
    /\ \A r \in Readers : rPc[r] = "r_wait" => (r \in rwWaiting \/ r \in rwReaders)
    /\ \A r \in Readers : InRead(r) => r \in rwReaders

\* C6, witness: two Reads hold the read lock at the same time.
C6_TwoReadsInside ==
    \E r1, r2 \in Readers : r1 # r2 /\ InRead(r1) /\ InRead(r2)

\* C7: Read of a key that has never been written returns ("", false) and
\* leaves the map as it was, without the key.
C7_ReadMissingKey ==
    \A r \in Readers :
      (rPc[r] = "r_unlock" /\ rAtLock[r] = <<>>)
        => (rRet[r] = [val |-> "", ok |-> FALSE] /\ data = EmptyMap)

\* C7, witness: a Read is about to return while no Write has stored yet and a
\* writer is waiting for the lock.
C7_ReadBeforeAnyWrite ==
    \E r \in Readers, w \in Writers :
      /\ rPc[r] = "r_unlock"
      /\ rAtLock[r] = <<>>
      /\ wPc[w] = "w_wait"

\* the messages of producer s among those received, in the order received
FromSource(s) ==
    SelectSeq(received, LAMBDA m : \E i \in 1..NumMsgs : m = Stream(s, NumMsgs)[i])

IsPrefix(a, b) == Len(a) <= Len(b) /\ \A i \in 1..Len(a) : a[i] = b[i]

\* C8: with two input channels that deliver NumMsgs messages each, the merged
\* channel yields exactly 2 * NumMsgs messages, no more and no fewer, those of
\* each source in that source's order.
C8_ExactlyTwoK ==
    /\ Len(received) <= 2 * NumMsgs
    /\ \A s \in Inputs : IsPrefix(FromSource(s), Stream(s, NumMsgs))
    /\ ((\A s \in Inputs : gPc[s] \in {"stop", "closed"})
          /\ (\A f \in Inputs : fPc[f] = "recv"))
         => Len(received) = 2 * NumMsgs

\* C9: once the forwarding goroutine of an input has found that input closed,
\* it has stopped and sends nothing to the merged channel.
C9_ForwarderStops ==
    \A f \in Inputs : (inClosed[f] /\ ~fOk[f]) => fPc[f] = "stopped"

\* C10: if all input channels of fanIn are closed, the merged channel is
\* eventually closed.
C10_MergedEventuallyClosed ==
    (\A s \in Inputs : inClosed[s]) ~> outClosed

\* C11: the values received from generatorWithBoring(msg) are, in order,
\* "msg 0", "msg 1", "msg 2", ...: the number starts at 0 and goes up by
\* exactly 1 per message, none skipped, repeated or out of order.
C11_InOrderFromZero ==
    \A k \in 1..Len(tGot) : tGot[k] = bMsg \o " " \o ToString(k - 1)

\* C11, witness: testGeneratorWithBoring has received its five messages, the
\* last of them "boring! 4".
C11_FiveReceived ==
    /\ tPc = "done"
    /\ Len(tGot) = TestReceives
    /\ tGot[TestReceives] = "boring! 4"

\* C12: the generator never runs ahead of its receiver: its counter is at most
\* the number of messages received from its channel, at most one message that
\* it has formatted is not received yet, and a send that has completed has
\* been received.
C12_NeverAhead ==
    /\ bI <= Len(tGot)
    /\ bMade - Len(tGot) \in {0, 1}
    /\ bPc = "sleep" => bMade = Len(tGot)

\* C12, witness: the generator waits in its send of the third message while
\* the receiver is still printing the second.
C12_SendWaits ==
    /\ bPc = "send"
    /\ tPc = "print"
    /\ bI = 2
    /\ Len(tGot) = 2
    /\ ~ENABLED generatorWithBoring_Send

\* every goroutine started by generatorWithBoring and fanIn in main
MainBlocked == \A s \in Inputs : gPc[s] = "send" /\ fPc[s] = "send"

\* C13: the goroutines of generatorWithBoring and fanIn never terminate, and
\* once the consumer has stopped receiving (after 5 messages in
\* testGeneratorWithBoring, after 10 in main) each of them ends up in a send
\* that nobody receives, and stays there for ever.
C13_BlockedForever ==
    /\ [](bPc \in {"fmt", "send", "sleep"})
    /\ [](\A s \in Inputs : gPc[s] \in {"send", "sleep"} /\ fPc[s] \in {"recv", "send"})
    /\ [](tPc = "done" => Len(tGot) = TestReceives)
    /\ [](mPc = "done" => mN = MainReceives)
    /\ (tPc = "done") ~> [](bPc = "send" /\ ~ENABLED generatorWithBoring_Send)
    /\ (mPc = "done") ~> [](MainBlocked /\ \A f \in Inputs : ~ENABLED Forwarder_Send(f))

\* C13, witness: main has received ten messages and left; both generators and
\* both forwarders wait in a send.
C13_MainLeftAllWaiting ==
    /\ mPc = "done"
    /\ mN = MainReceives
    /\ MainBlocked

\* the goroutines between the Lock and the Unlock of a SafeCounter operation
CounterInside ==
    Cardinality({w \in Workers : cPc[w] \in {"load", "store", "unlock"}})
      + (IF cMainPc \in {"v_read", "v_unlock"} THEN 1 ELSE 0)
      + (IF oPc \in {"v_read", "v_unlock"} THEN 1 ELSE 0)

\* the goroutines between the Lock and the Unlock of a SafeQueue operation
QueueInside ==
    Cardinality({p \in Producers : qpPc[p] \in {"e_load", "e_append", "e_unlock"}})
      + Cardinality({c \in Consumers : qcPc[c] \in {"d_body", "d_unlock"}})

\* C14: every SafeCounter, SafeQueue and ReadHeavyStruct operation releases
\* the lock it acquired, on every path, the empty-queue return of Dequeue
\* included: a lock is held only while an operation that acquired it has not
\* returned, so with no operation in progress the lock is free.
C14_LockFreeWhenIdle ==
    /\ cMu => CounterInside > 0
    /\ qMu => QueueInside > 0
    /\ rwWriter = {w \in Writers : InWrite(w)}
    /\ rwPending = {w \in Writers : wPc[w] = "w_wait"}
    /\ rwReaders \subseteq {r \in Readers : rPc[r] \in {"r_wait", "r_body", "r_unlock"}}
    /\ rwWaiting \subseteq {r \in Readers : rPc[r] = "r_wait"}

\* C14, witness: a Dequeue that found the queue empty has returned, an item
\* having been dequeued before, and with no SafeQueue operation in progress the
\* mutex is free.
C14_EmptyDequeueReturned ==
    /\ \E c \in Consumers : qcPc[c] = "check" /\ ~qcRet[c].ok
    /\ Len(Consumed) > 0
    /\ \A p \in Producers : qpPc[p] \in {"range", "done"}
    /\ \A c \in Consumers : qcPc[c] \in {"check", "done"}
    /\ ~qMu

\* C15: SafeCounter.value and SafeQueue.queue are read or written only between
\* the Lock and the Unlock of an operation, the mutex is locked then, and at
\* most one goroutine is there at any moment.
C15_AccessUnderLock ==
    /\ CounterInside <= 1
    /\ CounterInside = 1 => cMu
    /\ QueueInside <= 1
    /\ QueueInside = 1 => qMu

\* C15, witness: an Increment is about to write c.value while another
\* Increment and a Value() call wait for the mutex.
C15_StoreWhileOthersWait ==
    /\ \E w1, w2 \in Workers : cPc[w1] = "store" /\ cPc[w2] = "lock"
    /\ oPc = "v_lock"

\* every goroutine of the example has run to its end
CounterFinished ==
    cMainPc = "done" /\ oPc = "done" /\ \A w \in Workers : cPc[w] = "done"
QueueFinished ==
    /\ qMainPc = "done"
    /\ \A p \in Producers : qpPc[p] = "done"
    /\ \A c \in Consumers : qcPc[c] = "done"
RWFinished ==
    (\A w \in Writers : wPc[w] \in {"done", "none"}) /\ (\A r \in Readers : rPc[r] = "done")

\* C16: the operations of SafeCounter, SafeQueue and ReadHeavyStruct take one
\* lock and no second one, so with concurrent callers no deadlock is reachable
\* (some goroutine can take a step until all have run to their end) and every
\* call eventually returns (the goroutines do all run to their end), provided
\* every goroutine that can take a step is scheduled.
C16_NoDeadlockAllReturn ==
    /\ [](CounterFinished \/ QueueFinished \/ RWFinished \/ ENABLED NextMutexes)
    /\ <>(CounterFinished \/ QueueFinished \/ RWFinished)

\* C16, witness: the writers and readers of the ReadHeavyStruct, which share
\* one lock, have each made all their calls and returned from the last.
C16_AllReturnedAfterWaiting ==
    /\ RWFinished
    /\ \A w \in Writers : wI[w] = NumCalls
    /\ \A r \in Readers : rJ[r] = NumCalls
    /\ wLast # <<>>

\* C17: a Value() call made while other goroutines increment returns the value
\* the counter holds while the call has the lock, which is at least the number
\* of Increment calls completed before the call began and at most the number
\* of Increment calls started before it returns.
C17_ValueWithinCall ==
    oPc = "v_unlock" => (oRet = cValue /\ oLow <= oRet /\ oRet <= IncStarted)

\* C17, witness: a Value() call is about to return a value above the number of
\* Increment calls completed when it began and below the number started by now.
C17_ValueBetween ==
    /\ oPc = "v_unlock"
    /\ oLow < oRet
    /\ oRet < IncStarted

\* the elements of a sequence
Elements(q) == {q[i] : i \in DOMAIN q}

\* the consumers whose current Dequeue has taken an item and has not returned
Returning == {c \in Consumers : qcPc[c] = "d_unlock" /\ qcRet[c].ok}

\* the items Dequeue calls have taken from the queue so far
Dequeued ==
    {Consumed[i].item : i \in DOMAIN Consumed} \cup {qcRet[c].item : c \in Returning}

\* C18: with several producers and consumers on one SafeQueue (the items
\* enqueued all different), no item is returned by two Dequeue calls, none is
\* lost, and at every moment the items dequeued so far together with those
\* still in the queue are exactly the items enqueued so far.
C18_ItemsConserved ==
    /\ Cardinality(Elements(enqLog)) = Len(enqLog)
    /\ Dequeued \cup Elements(queue) = Elements(enqLog)
    /\ Len(Consumed) + Cardinality(Returning) + Len(queue) = Len(enqLog)

\* C18, witness: both producers have enqueued, two items have been returned,
\* both consumers are still at work and the queue is not empty.
C18_TwoProducersTwoConsumers ==
    /\ {ClientItems(1)[1], ClientItems(2)[1]} \subseteq Elements(enqLog)
    /\ Len(Consumed) >= 2
    /\ \A c \in Consumers : qcPc[c] \in {"d_lock", "d_body", "d_unlock", "check"}
    /\ Cardinality(Returning) = 1
    /\ queue # <<>>

\* C19 as claimed: fanIn forwards first-ready-first: a message handed to its
\* forwarder before the other source handed one to the other forwarder is
\* delivered on the merged channel before that one; so a forwarder delivers a
\* message only if the other forwarder holds none that was handed over earlier.
C19_HandedFirstDeliveredFirst ==
    [][\A f, g \in Inputs :
         (/\ fPc[f] = "send" /\ fPc'[f] = "recv" /\ fOk[f]
          /\ g # f /\ fPc[g] = "send" /\ fOk[g])
           => Head(holding) = f]_vars

\* C19, amended: fanIn forwards whichever forwarder sends first.  A forwarder
\* holds a value exactly from its receive to its send, the messages of one
\* source are delivered in the order that source handed them over, and a
\* forwarder that holds a value can deliver it as soon as the consumer
\* receives, whether or not the other forwarder got its value earlier.
C19_AnyHolderMayDeliver ==
    /\ Elements(holding) = {f \in Inputs : fPc[f] = "send"}
    /\ Len(holding) = Cardinality(Elements(holding))
    /\ \A s \in Inputs : IsPrefix(FromSource(s), Stream(s, NumMsgs))
    /\ \A f \in Inputs : (fPc[f] = "send" /\ mPc = "recv") => ENABLED Forwarder_Send(f)

\* C19, witness: both forwarders hold a message, the first got its message
\* first, and the second can deliver.
C19_LaterHolderCanDeliver ==
    /\ holding = <<1, 2>>
    /\ fOk[1] /\ fOk[2]
    /\ fVal[1] = "Joe 1"
    /\ ENABLED Forwarder_Send(2)

\* the workers launched that have not called Done yet
WgRunning == {k \in WgWorkers : wgPc[k] \in {"starting", "working", "return"}}

\* C20: in testWaitGroup, wg.Wait() returns, and "All workers completed." is
\* printed, only after all five workers have finished and called Done; it
\* always eventually returns; and the WaitGroup counter is never below zero
\* (it counts the workers launched that have not called Done yet).
C20_WaitAfterAllDone ==
    /\ [](wgMainPc \in {"print", "done"} => \A k \in WgWorkers : wgPc[k] = "done")
    /\ [](wgN >= 0 /\ wgN = Cardinality(WgRunning))
    /\ <>(wgMainPc = "done")

\* C20, witness: Wait() has returned with all five workers finished; the
\* message is about to be printed.
C20_WaitReturned ==
    /\ wgMainPc = "print"
    /\ wgMainI = WaitGroupWorkers + 1
    /\ \A k \in WgWorkers : wgPc[k] = "done"
    /\ wgN = 0

\* C21: on every call of TestMutex, counterWithMutex is 0 when the
\* workerWithMutex goroutines are launched and NumWorkers * NumIncr (5000 in
\* the code) when they have all finished and the total is printed.
C21_ZeroAtLaunchFullAtEnd ==
    /\ (tmPc = "spawn2" /\ tmI = 0) => counterWithMutex = 0
    /\ tmPc = "print2" => counterWithMutex = NumWorkers * NumIncr

\* C22: without the mutex the counter never exceeds NumWorkers * NumIncr, at
\* any moment and when TestMutex prints it; that it can end below the product
\* is what the witness shows.
C22_NeverAboveProduct ==
    /\ counter <= NumWorkers * NumIncr
    /\ \A w \in Workers : uTmp[w] < NumWorkers * NumIncr

\* C22, witness: every workerWithoutMutex goroutine has made all its
\* increments, TestMutex is about to print the counter, and increments were
\* lost.
C22_IncrementsLost ==
    /\ tmPc = "print1"
    /\ \A w \in Workers : uPc[w] = "done" /\ uI[w] = NumIncr
    /\ counter < NumWorkers * NumIncr

\* C23: deadlockExample never returns: the goroutine it starts never gets past
\* mu.Lock(), because the caller locked the mutex and never unlocks it, so
\* wg.Wait() never passes; once deadlockExample has started it ends up waiting
\* there for good (or the runtime, finding every goroutine asleep, ends the
\* program).
C23_NeverReturns ==
    /\ [](dFn = "deadlockExample" =>
            /\ dPc # "returned"
            /\ dgPc[1] \in {"unborn", "lock", "killed"}
            /\ dPc \in {"add", "go", "wait"} => dMu)
    /\ []((dFn = "deadlockExample" /\ dPc = "wait") =>
            (~ENABLED Goroutine_Lock(1) /\ ~ENABLED Example_Wait))
    /\ (dFn = "deadlockExample" /\ dPc # "start")
          ~> [](dPc \in {"wait", "killed"} /\ dgPc[1] \in {"lock", "killed"})

\* C23, witness: deadlockExample waits in wg.Wait() and its goroutine in
\* mu.Lock(), the mutex being held by deadlockExample itself.
C23_BothBlocked ==
    /\ dFn = "deadlockExample"
    /\ dPc = "wait"
    /\ dgPc[1] = "lock"
    /\ dMu
    /\ dWg = 1

\* the messages of source s among those received from the merged channel
MsgsOf(s) ==
    SelectSeq(received, LAMBDA m : \E i \in 0..MainReceives : m = Sprintf(Label(s), i))

\* C24: with fanIn over the two generators of main, what is received from the
\* merged channel is made of the messages of the two labels only, and those of
\* each label carry the numbers 0, 1, 2, ... in order, none missing and none
\* twice, whatever the interleaving of the two sources.
C24_EachSourceInOrder ==
    /\ \A s \in Inputs : MsgsOf(s) = Stream(s, Len(MsgsOf(s)))
    /\ Len(MsgsOf(1)) + Len(MsgsOf(2)) = Len(received)

\* C24, witness: main has made its ten receives, not in turns: it got two
\* messages of one source in a row and more of one source than of the other.
C24_TenReceivedUnevenly ==
    /\ mPc = "done"
    /\ Len(received) = MainReceives
    /\ received[1] = "Joe 0" /\ received[2] = "Joe 1"
    /\ Len(MsgsOf(1)) > Len(MsgsOf(2))

\* the messages source s has handed to its forwarder
HandedOff(s) == IF gPc[s] = "sleep" THEN gI[s] + 1 ELSE gI[s]

\* C26: a forwarder of fanIn holds at most one message it has received from
\* its input and not delivered yet: for every source, the messages the
\* generator has handed off are those delivered to main, plus one exactly when
\* the forwarder is between its receive and its send.
C26_AtMostOneInFlight ==
    \A s \in Inputs :
       /\ HandedOff(s) - Len(MsgsOf(s)) \in {0, 1}
       /\ HandedOff(s) - Len(MsgsOf(s)) = (IF fPc[s] = "send" THEN 1 ELSE 0)
       /\ fPc[s] = "send" => fVal[s] = Sprintf(Label(s), Len(MsgsOf(s)))

\* C26, witness: both forwarders hold a message, their generators having
\* handed off one more than main has received from them and being ready to
\* send the next.
C26_BothHoldingOne ==
    \A s \in Inputs :
       /\ fPc[s] = "send"
       /\ gPc[s] = "send"
       /\ Len(MsgsOf(s)) >= 1
       /\ gI[s] = Len(MsgsOf(s)) + 1

\* the items the consumer got, in order
ConsumedItems == [i \in 1..Len(Consumed) |-> Consumed[i].item]

\* C25: in TestSafeQueue the consumer stops at its first empty Dequeue: no
\* Dequeue follows one that returned ok = false, the consumer ends only after
\* such a Dequeue and after one it does nothing but end.  What it consumed is at
\* all times a prefix of 1, 2, 3, 4, 5; every run terminates, and at the end
\* the consumed items followed by the items left in the queue are 1, 2, 3, 4, 5.
C25_PrefixConsumedRestQueued ==
    /\ [](\A i \in 1..(Len(deqLog) - 1) : deqLog[i].ok)
    /\ [](qcPc[1] = "done" => (deqLog # <<>> /\ ~deqLog[Len(deqLog)].ok))
    /\ []((deqLog # <<>> /\ ~deqLog[Len(deqLog)].ok) => qcPc[1] \in {"check", "done"})
    /\ [](IsPrefix(ConsumedItems, TestItems))
    /\ [](qMainPc = "done" =>
            (QueueFinished /\ ConsumedItems \o queue = TestItems))
    /\ <>(qMainPc = "done")

\* C25, witness: TestSafeQueue has ended and the consumer consumed nothing:
\* its first Dequeue came before the first Enqueue, and the five items are
\* still in the queue.
C25_NothingConsumed ==
    /\ qMainPc = "done"
    /\ ConsumedItems = <<>>
    /\ queue = TestItems
    /\ deqLog = <<[item |-> 0, ok |-> FALSE]>>

\* the i of "value<i>", for the values the writer of TestRWMutex writes
IndexOf(v) == CHOOSE i \in 0..(NumCalls - 1) : ValueOf(i) = v

\* a Read that returned new is not behind an earlier Read that returned old
NotBehind(old, new) ==
    old.ok => (new.ok /\ IndexOf(new.val) >= IndexOf(old.val))

\* C27: in TestRWMutex a reader sees the writer's updates in write order:
\* after a Read that returned value_i for "foo", no later Read of that reader
\* returns "not found" or a value_j with j < i.  The map is always empty or
\* holds "foo" alone with one of the writer's values, and when all goroutines
\* have finished it is exactly {foo: value<NumCalls - 1>} (value4 in the code).
C27_ReadsInWriteOrder ==
    /\ [][\A r \in Readers :
            (rPc[r] = "r_body" /\ rPc'[r] = "r_unlock")
               => NotBehind(rRet[r], rRet'[r])]_vars
    /\ [](DOMAIN data \subseteq {Key})
    /\ [](Key \in DOMAIN data => \E i \in 0..(NumCalls - 1) : data[Key] = ValueOf(i))
    /\ [](RWFinished => data = [k \in {Key} |-> ValueOf(NumCalls - 1)])

\* C27, witness: a reader whose last Read returned value0 is inside its next
\* Read, about to look "foo" up, and the writer has updated "foo" since.
C27_ReaderAboutToSeeUpdate ==
    \E r \in Readers :
       /\ rPc[r] = "r_body"
       /\ rJ[r] >= 1
       /\ rRet[r] = [val |-> ValueOf(0), ok |-> TRUE]
       /\ data = [k \in {Key} |-> ValueOf(1)]

\* C28: Write on a ReadHeavyStruct whose data is the nil map faults instead of
\* storing: the map stays as it was, the goroutine panics and no Write call
\* returns; the deferred Unlock still releases the write lock before the
\* panic goes on; Read on such a struct returns ("", false).  The zero-value
\* SafeCounter and SafeQueue work: the counter ends at the number of
\* increments and the queue hands out what was put in.
C28_NilMapWriteFaults ==
    /\ dataNil /\ data = EmptyMap
    /\ wLast = <<>>
    /\ \A w \in Writers :
          /\ wI[w] = 0
          /\ wPc[w] = "w_unlock" => (w \in rwPanic /\ ENABLED ReadHeavyStruct_Write_Unlock(w))
          /\ wPc[w] = "fatal" => (w \in rwPanic /\ w \notin rwWriter)
    /\ \A r \in Readers :
          rPc[r] = "r_unlock" => rRet[r] = [val |-> "", ok |-> FALSE]
    /\ cMainPc = "done" => cResult = NumWorkers * NumIncr
    /\ qMainPc = "done" => ConsumedItems \o queue = TestItems

\* C28, witness: a Write on the nil map has panicked, its deferred Unlock has
\* released the write lock, nothing was stored, and a reader is returning
\* ("", false) from a Read.
C28_FaultedAndUnlocked ==
    /\ dataNil
    /\ \E w \in Writers : wPc[w] = "fatal" /\ w \in rwPanic
    /\ rwWriter = {}
    /\ data = EmptyMap
    /\ \E r \in Readers : rPc[r] = "r_unlock" /\ rRet[r] = [val |-> "", ok |-> FALSE]

\* the number of elements of s equal to v
Count(s, v) == Cardinality({a \in DOMAIN s : s[a] = v})

\* the m + n elements merge is given: the first m of nums1, and nums2
MergeInput == SubSeq(nums1In, 1, mergeM) \o nums2

\* C29: merge leaves nums1 sorted and equal as a multiset to the m + n input
\* elements; throughout the loops k = i + j + 1, no index is out of range
\* (merge does not panic), and the elements of nums1 not read yet, those at
\* indices 0..i, are as they were passed.
C29_MergeSortedSameElements ==
    /\ mergePc # "panic"
    /\ mergePc \in {"merging", "copying", "done"} =>
          /\ mergeK = mergeI + mergeJ + 1
          /\ mergeI >= -1 /\ mergeJ >= -1
          /\ \A a \in 0..mergeI : At(nums1, a) = At(nums1In, a)
    /\ Len(nums1) = mergeM + mergeN /\ nums2 = SubSeq(MergeInput, mergeM + 1, mergeM + mergeN)
    /\ mergePc = "done" =>
          /\ Sorted(nums1)
          /\ \A v \in Vals : Count(nums1, v) = Count(MergeInput, v)

\* C29, witness: merge has returned from a call with m, n > 0 in which both
\* loops did work: the smallest element came from nums2 by the second loop,
\* and an element of nums1 was moved up.
C29_MergedBothLoops ==
    /\ mergePc = "done"
    /\ mergeM = MaxLen /\ mergeN = MaxLen
    /\ nums1 # nums1In
    /\ At(nums2, 0) < At(nums1In, 0)
    /\ At(nums1, mergeM + mergeN - 1) = At(nums1In, mergeM - 1)
    /\ At(nums1, mergeM + mergeN - 1) > At(nums2, mergeN - 1)

\* q is a / b as Go computes it for ints, b > 0: the quotient truncated
\* toward zero
IsQuotient(q, a, b) ==
    LET rem == a - q * b IN
      /\ -b < rem /\ rem < b
      /\ a >= 0 => rem >= 0
      /\ a <= 0 => rem <= 0

\* C30: split(sum) returns x = sum * 4 / 9 in integer arithmetic and
\* y = sum - x, and for sum = 17 it returns x = 8, y = 9.
C30_SplitSeventeen ==
    splitPc = "returned" =>
       /\ IsQuotient(splitX, splitSum * 4, 9)
       /\ splitY = splitSum - splitX
       /\ splitSum = 17 => (splitX = 8 /\ splitY = 9)


====
